---------------------------- MODULE Spec2Model ----------------------------
(***************************************************************************)
(* A model of the RollerMate client (yungrezac/inlineapp): the screens'    *)
(* view state, the async handlers that run against the hosted backend, and *)
(* the backend tables those handlers read and write.                       *)
(*                                                                         *)
(* Every handler is an async function: it runs to its next `await`, the    *)
(* backend call executes, and the handler resumes.  One action of the      *)
(* model is one such segment: the backend call taking effect together with *)
(* the synchronous code that follows it up to the next await.  A handler   *)
(* closes over the view state of the render it was created in, so a frame  *)
(* keeps the captured value (React closure semantics).                     *)
(*                                                                         *)
(* A supabase-js call resolves to {data, error}: a failed call returns an  *)
(* error result ("error") and does not reject; a rejected promise is the   *)
(* outcome "throw".  Both are possible outcomes of every call.             *)
(***************************************************************************)
EXTENDS Integers, Sequences, FiniteSets, TLC

\* ------------------------------------------------------------------ bounds
\* Rows of the chats table.
MaxChats == 3
\* Rows of the notifications table.
MaxNotifs == 1
\* Calls of TabLayout's functions that are running at the same time.
MaxInflight == 3
\* Rows of the posts table.
MaxPosts == 1
\* Objects of the post-images bucket.
MaxObjects == 1
\* Calls of FeedScreen.fetchPosts that are running at the same time.
MaxFetches == 1
\* Calls of FeedScreen.handleLike that are running at the same time.
MaxLikeCalls == 2
MaxChanges == 2
MaxMessages == 1
MaxMessageCalls == 2

\* --------------------------------------------------------------- constants
NULL == "null"
\* useState<Profile | null>(null)
NoProfile == [none |-> TRUE]
Outcomes == {"ok", "error", "throw"}

Users == {"u1", "u2", "u3"}
\* The user signed in on the device under test.
Viewer == "u1"

VARIABLES
    authUser,   \* supabase.auth.getUser(): the signed-in user id, or NULL
    profiles,   \* table profiles: the ids that have a row
    follows,    \* table follows: <<follower_id, following_id>>, unique
    postsOf,    \* table posts, grouped: user id -> number of post rows
    up,         \* UserProfileScreen: view state
    fp,         \* UserProfileScreen.fetchProfile: the running call
    fup,        \* UserProfileScreen.fetchUserPosts: the running call
    hf,         \* UserProfileScreen.handleFollow: the running call
    tog,        \* history of completed handleFollow calls
    ps,         \* ProfileScreen (own profile): view state
    pfp,        \* ProfileScreen.fetchProfile: the running call
    pfup,       \* ProfileScreen.fetchUserPosts: the running call
    chats,      \* table chats: the ids of the rows
    chat_participants,  \* table chat_participants: <<chat_id, user_id>>
    cs,         \* per client: the user-profile screen a message starts from
    hm,         \* per client: UserProfileScreen.handleMessage, the running call
    ran,        \* per client: how the last completed handleMessage ran
    notifications,  \* table notifications: row id -> [user_id, read]
    events,     \* realtime INSERT events on their way to the client
    tl,         \* TabLayout: view state and channel subscription
    fun,        \* TabLayout.fetchUnreadNotifications: the running calls
    fnl,        \* TabLayout.fetchNotifications: the running calls
    mrs,        \* TabLayout.markNotificationsAsRead: the running calls
    sinceMark,  \* a mark call completed and no row was inserted since
    posts,      \* table posts: row id -> [content, image_url, location]
    likes,      \* table likes: the pairs <<post id, user>>
    storage,    \* bucket post-images: the object names
    fs,         \* FeedScreen: view state
    fcu,        \* FeedScreen.checkUser: position of the mount call
    fps,        \* FeedScreen.fetchPosts: the running calls
    hcp,        \* FeedScreen.handleCreatePost: the running call
    hl,          \* FeedScreen.handleLike: the running calls
    root,       \* RootLayout: session, isLoading and the session lookup
    msg         \* table messages, its pending INSERT events, and the
                \* running calls of TabLayout.fetchUnreadMessages

\* One of the two profile screens is mounted in a run.
userScreenVars == <<up, fp, fup, hf, tog>>
ownScreenVars == <<ps, pfp, pfup>>
profileVars == <<profiles, follows, postsOf, userScreenVars, ownScreenVars>>
chatVars == <<chats, chat_participants, cs, hm, ran>>

tabVars == <<notifications, events, tl, fun, fnl, mrs, sinceMark>>

feedVars == <<posts, likes, storage, fs, fcu, fps, hcp, hl>>

rootVars == <<root>>

messageVars == <<msg>>

vars == <<authUser, profileVars, chatVars, tabVars, feedVars, rootVars, messageVars>>

\* What the actions of one screen leave alone.
outsideProfile == <<chatVars, tabVars, feedVars, rootVars, messageVars>>
outsideChat == <<authUser, profileVars, tabVars, feedVars, rootVars, messageVars>>
outsideTabs == <<profileVars, chatVars, feedVars, rootVars, messageVars>>
outsideFeed == <<profileVars, chatVars, tabVars, rootVars, messageVars>>
notUserScreen == <<ownScreenVars, outsideProfile>>
notOwnScreen == <<userScreenVars, outsideProfile>>

\* ------------------------------------------------- user-profile screen
\* followersData[0]?.count || 0
CountOrZero(data) ==
    IF Len(data) = 0 THEN 0
    ELSE IF data[1].count = 0 THEN 0 ELSE data[1].count

\* Mutant: the count filtered on the other column of the pair.
FollowersQueryByFollower(tbl, id) ==
    <<[count |-> Cardinality({e \in tbl : e[1] = id})]>>

\* .from('follows').select('count').eq('following_id', id)
FollowersQuery(tbl, id) ==
    <<[count |-> Cardinality({e \in tbl : e[2] = id})]>>

\* .from('follows').select('count').eq('follower_id', id)
FollowingQuery(tbl, id) ==
    <<[count |-> Cardinality({e \in tbl : e[1] = id})]>>

\* .from('follows').select('id').eq('follower_id', user.id).eq('following_id', id)
IsFollowingQuery(tbl, user, id) ==
    {e \in tbl : e[1] = user /\ e[2] = id}

\* if (loading) ... ; if (!profile) ... ; return <profile view>
Render(s) ==
    IF s.loading THEN "loading"
    ELSE IF s.profile = NoProfile THEN "notFound"
    ELSE "profile"

\* A call's locals; they are gone when the call returns.  followersAt and
\* followingAt record the follows table as it was when the count query ran,
\* failedAt the await whose failure sent the call to its catch block.
FpIdle ==
    [pc |-> "done", user |-> NULL, posts_count |-> 0,
     followersData |-> <<>>, followingData |-> <<>>,
     followersAt |-> {}, followingAt |-> {}, failedAt |-> "none"]

HfIdle == [pc |-> "idle", profile |-> NoProfile, user |-> NULL, outcome |-> "none"]

\* useState initial values, lines 31-36; checkUser awaits getUser.
UpInit(mounted) ==
    /\ up \in [id : IF mounted THEN {"u1", "u2"} ELSE {"u2"},
               profile : {NoProfile}, loading : {TRUE},
               followLoading : {FALSE}, currentUserId : {NULL},
               posts : {0}, route : {"profile"}, mounted : {mounted}]
    /\ fp = [FpIdle EXCEPT !.pc = IF mounted THEN "mount" ELSE "off"]
    /\ fup = "off"
    /\ hf = HfIdle
    /\ tog = [hist |-> <<>>, cur |-> <<>>, clean |-> TRUE]

BackendInit ==
    /\ authUser \in {Viewer, NULL}
    /\ profiles \in {Users, Users \ {"u2"}}
    /\ follows \in SUBSET {<<"u1", "u2">>, <<"u3", "u2">>, <<"u2", "u3">>}
    /\ postsOf = [u \in Users |-> IF u = "u2" THEN 2 ELSE 0]

\* useEffect(() => { checkUser(); }, []) : lines 39-57
CheckUser(o) ==
    /\ fp.pc = "mount"
    /\ IF o # "ok" \/ authUser = NULL
       THEN /\ up' = [up EXCEPT !.route = "auth"]
            /\ fp' = [fp EXCEPT !.pc = "off"]
            /\ fup' = fup
       ELSE /\ up' = [up EXCEPT !.currentUserId = authUser]
            /\ fp' = [fp EXCEPT !.pc = "getUser"]
            /\ fup' = "run"
    /\ UNCHANGED <<authUser, profiles, follows, postsOf, hf, tog>>
    /\ UNCHANGED notUserScreen

\* Mutant: the finally block that ends loading is missing.
FetchProfileEndNoFinally(at) ==
    /\ fp' = [FpIdle EXCEPT !.failedAt = at]
    /\ up' = up

\* Mutant: the catch block stores a record with the flag defaulted to false.
FetchProfileEndDefaulting(at) ==
    /\ fp' = [FpIdle EXCEPT !.failedAt = at]
    /\ up' = [up EXCEPT !.loading = FALSE,
                        !.profile = [id |-> up.id,
                                     followers_count |-> CountOrZero(fp.followersData),
                                     following_count |-> CountOrZero(fp.followingData),
                                     posts_count |-> fp.posts_count,
                                     is_following |-> FALSE]]

\* try { ... } catch { console.error } finally { setLoading(false) }
\* (at: the await that failed, "none" for the return of line 62)
FetchProfileEnd(at) ==
    /\ fp' = [FpIdle EXCEPT !.failedAt = at]
    /\ up' = [up EXCEPT !.loading = FALSE]

\* const { data: { user } } = await supabase.auth.getUser(); if (!user) return;
FetchProfileGetUser(o) ==
    /\ fp.pc = "getUser"
    /\ IF o # "ok" \/ authUser = NULL
       THEN FetchProfileEnd(IF o = "throw" THEN "getUser" ELSE "none")
       ELSE /\ fp' = [fp EXCEPT !.pc = "base", !.user = authUser]
            /\ up' = up
    /\ UNCHANGED <<authUser, profiles, follows, postsOf, fup, hf, tog>>
    /\ UNCHANGED notUserScreen

\* from('profiles').select(...).eq('id', id).single(); if (profileError) throw
FetchProfileBase(o) ==
    /\ fp.pc = "base"
    /\ IF o # "ok" \/ up.id \notin profiles
       THEN FetchProfileEnd("base")
       ELSE /\ fp' = [fp EXCEPT !.pc = "followers",
                                !.posts_count = postsOf[up.id]]
            /\ up' = up
    /\ UNCHANGED <<authUser, profiles, follows, postsOf, fup, hf, tog>>
    /\ UNCHANGED notUserScreen

\* Fetch follower count; if (followersError) throw followersError
FetchProfileFollowers(o) ==
    /\ fp.pc = "followers"
    /\ IF o # "ok"
       THEN FetchProfileEnd("followers")
       ELSE /\ fp' = [fp EXCEPT !.pc = "following",
                                !.followersData = FollowersQuery(follows, up.id),
                                !.followersAt = follows]
            /\ up' = up
    /\ UNCHANGED <<authUser, profiles, follows, postsOf, fup, hf, tog>>
    /\ UNCHANGED notUserScreen

\* Fetch following count; if (followingError) throw followingError
FetchProfileFollowing(o) ==
    /\ fp.pc = "following"
    /\ IF o # "ok"
       THEN FetchProfileEnd("following")
       ELSE /\ fp' = [fp EXCEPT !.pc = "isFollowing",
                                !.followingData = FollowingQuery(follows, up.id),
                                !.followingAt = follows]
            /\ up' = up
    /\ UNCHANGED <<authUser, profiles, follows, postsOf, fup, hf, tog>>
    /\ UNCHANGED notUserScreen

\* The record built at lines 106-112.
BuildProfile(f, id, isFollowingData) ==
    [id |-> id,
     followers_count |-> CountOrZero(f.followersData),
     following_count |-> CountOrZero(f.followingData),
     posts_count |-> f.posts_count,
     is_following |-> Cardinality(isFollowingData) > 0]

\* Check if current user is following; build the record; setProfile(profile)
FetchProfileIsFollowing(o) ==
    /\ fp.pc = "isFollowing"
    /\ IF o # "ok"
       THEN FetchProfileEnd("isFollowing")
       ELSE /\ fp' = FpIdle
            /\ up' = [up EXCEPT
                        !.profile = BuildProfile(fp, up.id,
                                       IsFollowingQuery(follows, fp.user, up.id)),
                        !.loading = FALSE]
    /\ UNCHANGED <<authUser, profiles, follows, postsOf, fup, hf, tog>>
    /\ UNCHANGED notUserScreen

\* fetchUserPosts: lines 122-147 (the list is modelled by its length)
FetchUserPosts(o) ==
    /\ fup = "run"
    /\ fup' = "done"
    /\ up' = IF o = "ok" THEN [up EXCEPT !.posts = postsOf[up.id]] ELSE up
    /\ UNCHANGED <<authUser, profiles, follows, postsOf, fp, hf, tog>>
    /\ UNCHANGED notUserScreen

\* The server edge (viewer, target), the local flag and the local counter.
FollowState ==
    [edge |-> <<Viewer, up.id>> \in follows,
     flag |-> up.profile.is_following,
     count |-> up.profile.followers_count]

\* onPress={handleFollow} disabled={followLoading}; if (!profile) return;
\* setFollowLoading(true)
HandleFollowStart ==
    /\ Render(up) = "profile"
    /\ ~up.followLoading
    /\ up.profile # NoProfile
    /\ hf' = [hf EXCEPT !.pc = "getUser", !.profile = up.profile]
    /\ up' = [up EXCEPT !.followLoading = TRUE]
    /\ tog' = [tog EXCEPT !.cur = FollowState, !.clean = TRUE]
    /\ UNCHANGED <<authUser, profiles, follows, postsOf, fp, fup>>
    /\ UNCHANGED notUserScreen

\* Mutant: the return for want of a user skips setFollowLoading(false).
HandleFollowGetUserNoFinally(o) ==
    /\ hf.pc = "getUser"
    /\ IF o # "ok" \/ authUser = NULL
       THEN /\ hf' = HfIdle
            /\ up' = up
            /\ tog' = [tog EXCEPT !.hist = <<>>]
       ELSE /\ hf' = [hf EXCEPT !.pc = "backend", !.user = authUser]
            /\ UNCHANGED <<up, tog>>
    /\ UNCHANGED <<authUser, profiles, follows, postsOf, fp, fup>>
    /\ UNCHANGED notUserScreen

\* const { data: { user } } = await supabase.auth.getUser(); if (!user) return;
\* finally { setFollowLoading(false) }
HandleFollowGetUser(o) ==
    /\ hf.pc = "getUser"
    /\ IF o # "ok" \/ authUser = NULL
       THEN /\ hf' = HfIdle
            /\ up' = [up EXCEPT !.followLoading = FALSE]
            /\ tog' = [tog EXCEPT !.hist = <<>>]
       ELSE /\ hf' = [hf EXCEPT !.pc = "backend", !.user = authUser]
            /\ UNCHANGED <<up, tog>>
    /\ UNCHANGED <<authUser, profiles, follows, postsOf, fp, fup>>
    /\ UNCHANGED notUserScreen

\* The follows table after the call of lines 157-166 with outcome o.
\* delete().match(...) of no row succeeds; insert of an existing pair violates
\* the unique constraint and returns an error result.
FollowWrite(tbl, p, user, o) ==
    IF o # "ok" THEN tbl
    ELSE IF p.is_following THEN tbl \ {<<user, p.id>>}
    ELSE tbl \cup {<<user, p.id>>}

FollowOutcome(tbl, p, user, o) ==
    IF o = "ok" /\ ~p.is_following /\ <<user, p.id>> \in tbl THEN "error" ELSE o

\* if (profile.is_following) await ...delete().match(...) else await ...insert(...)
HandleFollowBackend(o) ==
    /\ hf.pc = "backend"
    /\ follows' = FollowWrite(follows, hf.profile, hf.user,
                              FollowOutcome(follows, hf.profile, hf.user, o))
    /\ hf' = [hf EXCEPT !.pc = "settle",
                        !.outcome = FollowOutcome(follows, hf.profile, hf.user, o)]
    /\ UNCHANGED <<authUser, profiles, postsOf, up, fp, fup, tog>>
    /\ UNCHANGED notUserScreen

\* The local profile after the awaited call resolved with outcome o:
\* a rejected promise skips setProfile (catch), anything else runs it.
FollowSettle(cur, p, o) ==
    IF o = "throw" THEN cur
    ELSE [p EXCEPT
            !.followers_count = IF p.is_following THEN @ - 1 ELSE @ + 1,
            !.is_following = ~p.is_following]

\* setProfile({...profile, ...}); finally { setFollowLoading(false) }
HandleFollowSettle ==
    /\ hf.pc = "settle"
    /\ up' = [up EXCEPT !.profile = FollowSettle(up.profile, hf.profile, hf.outcome),
                        !.followLoading = FALSE]
    /\ hf' = HfIdle
    /\ tog' = [tog EXCEPT
                 !.hist = IF hf.outcome = "ok" /\ tog.clean
                          THEN IF Len(@) = 2 THEN <<@[2], tog.cur>>
                               ELSE Append(@, tog.cur)
                          ELSE <<>>]
    /\ UNCHANGED <<authUser, profiles, follows, postsOf, fp, fup>>
    /\ UNCHANGED notUserScreen

\* --------------------------------------------------- own profile screen
\* followersCount || 0
OrZero(count) == IF count = 0 THEN 0 ELSE count

\* .from('follows').select('*', {count: 'exact', head: true}).eq('following_id', user.id)
OwnFollowersCount(tbl, user) == Cardinality({e \in tbl : e[2] = user})

\* .from('follows').select('*', {count: 'exact', head: true}).eq('follower_id', user.id)
OwnFollowingCount(tbl, user) == Cardinality({e \in tbl : e[1] = user})

PfpIdle ==
    [pc |-> "done", user |-> NULL, followersCount |-> 0, followingCount |-> 0,
     followersAt |-> {}, followingAt |-> {}, failed |-> FALSE]

\* useState initial values, lines 1221-1233; the mount effect has called
\* fetchProfile() and fetchUserPosts(), each awaiting getUser.
PsInit(mounted) ==
    /\ ps = [profile |-> NoProfile, editedProfile |-> NoProfile, loading |-> TRUE,
             error |-> NULL, userPosts |-> 0, mounted |-> mounted,
             route |-> "profile"]
    /\ pfp = [PfpIdle EXCEPT !.pc = IF mounted THEN "getUser" ELSE "off"]
    /\ pfup = IF mounted THEN "getUser" ELSE "off"

\* Mutant: the catch block also stores an empty profile.
OwnFetchProfileFailStoringEmpty ==
    /\ pfp' = [PfpIdle EXCEPT !.failed = TRUE]
    /\ ps' = [ps EXCEPT !.error = "Failed to load profile data", !.loading = FALSE,
                        !.profile = [id |-> NULL, followers_count |-> 0,
                                     following_count |-> 0, posts_count |-> 0]]

\* catch { setError('Failed to load profile data') } finally { setLoading(false) }
\* (failed: the call ended in the catch block)
OwnFetchProfileFail ==
    /\ pfp' = [PfpIdle EXCEPT !.failed = TRUE]
    /\ ps' = [ps EXCEPT !.error = "Failed to load profile data", !.loading = FALSE]

\* getUser(); if (!user) throw new Error('No user found')
OwnFetchProfileGetUser(o) ==
    /\ pfp.pc = "getUser"
    /\ IF o # "ok" \/ authUser = NULL
       THEN OwnFetchProfileFail
       ELSE /\ pfp' = [pfp EXCEPT !.pc = "base", !.user = authUser]
            /\ ps' = ps
    /\ UNCHANGED <<authUser, profiles, follows, postsOf, pfup>>
    /\ UNCHANGED notOwnScreen

\* from('profiles').select('*').eq('id', user.id).single(); if (profileError) throw
OwnFetchProfileBase(o) ==
    /\ pfp.pc = "base"
    /\ IF o # "ok" \/ pfp.user \notin profiles
       THEN OwnFetchProfileFail
       ELSE /\ pfp' = [pfp EXCEPT !.pc = "followers"]
            /\ ps' = ps
    /\ UNCHANGED <<authUser, profiles, follows, postsOf, pfup>>
    /\ UNCHANGED notOwnScreen

\* Then get the followers count; if (followersError) throw
OwnFetchProfileFollowers(o) ==
    /\ pfp.pc = "followers"
    /\ IF o # "ok"
       THEN OwnFetchProfileFail
       ELSE /\ pfp' = [pfp EXCEPT !.pc = "following",
                         !.followersCount = OwnFollowersCount(follows, pfp.user),
                         !.followersAt = follows]
            /\ ps' = ps
    /\ UNCHANGED <<authUser, profiles, follows, postsOf, pfup>>
    /\ UNCHANGED notOwnScreen

\* Get the following count; if (followingError) throw
OwnFetchProfileFollowing(o) ==
    /\ pfp.pc = "following"
    /\ IF o # "ok"
       THEN OwnFetchProfileFail
       ELSE /\ pfp' = [pfp EXCEPT !.pc = "posts",
                         !.followingCount = OwnFollowingCount(follows, pfp.user),
                         !.followingAt = follows]
            /\ ps' = ps
    /\ UNCHANGED <<authUser, profiles, follows, postsOf, pfup>>
    /\ UNCHANGED notOwnScreen

\* The record built at lines 1292-1297.
OwnBuildProfile(f, postsCount) ==
    [id |-> f.user,
     followers_count |-> OrZero(f.followersCount),
     following_count |-> OrZero(f.followingCount),
     posts_count |-> OrZero(postsCount)]

\* Get the posts count; build the record; setProfile; setEditedProfile
OwnFetchProfilePosts(o) ==
    /\ pfp.pc = "posts"
    /\ IF o # "ok"
       THEN OwnFetchProfileFail
       ELSE /\ pfp' = PfpIdle
            /\ ps' = [ps EXCEPT
                        !.profile = OwnBuildProfile(pfp, postsOf[pfp.user]),
                        !.editedProfile = OwnBuildProfile(pfp, postsOf[pfp.user]),
                        !.loading = FALSE]
    /\ UNCHANGED <<authUser, profiles, follows, postsOf, pfup>>
    /\ UNCHANGED notOwnScreen

\* fetchUserPosts, lines 1309-1342: getUser(); if (!user) return
OwnFetchUserPostsGetUser(o) ==
    /\ pfup = "getUser"
    /\ pfup' = IF o = "ok" /\ authUser # NULL THEN "query" ELSE "done"
    /\ ps' = IF o = "throw" THEN [ps EXCEPT !.error = "Failed to load posts"] ELSE ps
    /\ UNCHANGED <<authUser, profiles, follows, postsOf, pfp>>
    /\ UNCHANGED notOwnScreen

\* the posts query and the like counts (the list is modelled by its length)
OwnFetchUserPostsQuery(o) ==
    /\ pfup = "query"
    /\ pfup' = "done"
    /\ ps' = IF o = "ok" THEN [ps EXCEPT !.userPosts = postsOf[Viewer]]
             ELSE [ps EXCEPT !.error = "Failed to load posts"]
    /\ UNCHANGED <<authUser, profiles, follows, postsOf, pfp>>
    /\ UNCHANGED notOwnScreen

\* ------------------------------------------------------------ environment
\* The user whose counts the mounted screen shows.
Focus == IF ps.mounted THEN Viewer ELSE up.id

\* Another client follows or unfollows the shown user, or the shown user
\* follows or unfollows somebody.  The other client may be a second session
\* of the viewer (another device or browser tab), so the viewer's own edges
\* change too.
ExternalFollow(a, b) ==
    /\ a # b
    /\ Focus \in {a, b}
    /\ follows' = IF <<a, b>> \in follows THEN follows \ {<<a, b>>}
                  ELSE follows \cup {<<a, b>>}
    /\ tog' = [tog EXCEPT !.hist = <<>>, !.clean = FALSE]
    /\ UNCHANGED <<authUser, profiles, postsOf, up, fp, fup, hf, ownScreenVars>>
    /\ UNCHANGED outsideProfile

\* The session ends (sign-out elsewhere, token expiry).
SessionEnd ==
    /\ authUser # NULL
    /\ authUser' = NULL
    /\ UNCHANGED <<profileVars, chatVars, tabVars, feedVars, rootVars, messageVars>>

\* ---------------------------------------------------- messaging bootstrap
\* Two signed-in users, each on the other's profile screen with the profile
\* loaded, so that the message button of line 339 is shown.
Clients == {"u1", "u2"}
Target(c) == IF c = "u1" THEN "u2" ELSE "u1"

\* No chat id (newChat before the insert, a router that was not pushed).
NoChat == 0

\* The chats in which both users have a participant row.
SharedChats(parts, a, b) ==
    {ch \in {r[1] : r \in parts} : <<ch, a>> \in parts /\ <<ch, b>> \in parts}

\* .from('chat_participants').select('chat_id').eq('user_id', currentUserId),
\* then existingChats.map(chat => chat.chat_id)
ChatIdsOf(parts, user) == {r[1] : r \in {q \in parts : q[2] = user}}

\* .select('chat_id').eq('user_id', profile.id).in('chat_id', chatIds).single():
\* data is the row when exactly one row matches; with no row or several rows
\* single() returns an error result and data is null.
Single(rows) == IF Cardinality(rows) = 1 THEN CHOOSE r \in rows : TRUE ELSE <<>>

ExistingChat(parts, target, chatIds) ==
    Single({r \in parts : r[2] = target /\ r[1] \in chatIds})

HmIdle == [pc |-> "idle", chatIds |-> {}, newChat |-> NoChat,
           shared |-> {}, clean |-> TRUE]

ChatTables ==
    {[chats |-> {}, parts |-> {}],
     [chats |-> {1}, parts |-> {<<1, "u1">>, <<1, "u3">>}],
     [chats |-> {1}, parts |-> {<<1, "u1">>, <<1, "u2">>}],
     [chats |-> {1, 2}, parts |-> {<<1, "u1">>, <<1, "u2">>,
                                  <<2, "u1">>, <<2, "u2">>, <<2, "u3">>}]}

ChatInit(t) ==
    /\ chats = t.chats
    /\ chat_participants = t.parts
    /\ cs = [c \in Clients |-> [profile |-> Target(c), currentUserId |-> c,
                                nav |-> NoChat]]
    /\ hm = [c \in Clients |-> HmIdle]
    /\ ran = [c \in Clients |-> "never"]

\* How a completed call ran: with a backend call that failed, or with every
\* call answered without error, from a state with or without a shared chat.
RanAs(f) ==
    IF ~f.clean THEN "failed"
    ELSE IF f.shared = {} THEN "cleanNoShared" ELSE "cleanShared"

\* the call returns (or its catch block ran): the locals are gone
HandleMessageReturn(c, f) ==
    /\ hm' = [hm EXCEPT ![c] = HmIdle]
    /\ ran' = [ran EXCEPT ![c] = RanAs(f)]

\* onPress={handleMessage}; if (!profile || !currentUserId) return;
HandleMessageStart(c) ==
    /\ hm[c].pc = "idle"
    /\ Cardinality(chats) + Cardinality({d \in Clients : hm[d].pc # "idle"}) < MaxChats
    /\ cs[c].profile # NULL
    /\ cs[c].currentUserId # NULL
    /\ hm' = [hm EXCEPT ![c] = [HmIdle EXCEPT
                 !.pc = "existingChats",
                 !.shared = SharedChats(chat_participants, c, Target(c))]]
    /\ UNCHANGED <<chats, chat_participants, cs, ran>>
    /\ UNCHANGED outsideChat

\* const { data: existingChats } = await ...; if (!existingChats) return;
HandleMessageExistingChats(c, o) ==
    /\ hm[c].pc = "existingChats"
    /\ IF o = "ok"
       THEN /\ hm' = [hm EXCEPT ![c].pc = "existingChat",
                                ![c].chatIds = ChatIdsOf(chat_participants,
                                                         cs[c].currentUserId)]
            /\ ran' = ran
       ELSE HandleMessageReturn(c, [hm[c] EXCEPT !.clean = FALSE])
    /\ UNCHANGED <<chats, chat_participants, cs>>
    /\ UNCHANGED outsideChat

\* const { data: existingChat } = await ....single();
\* if (existingChat) router.push(`/chat/${existingChat.chat_id}`) else ...
HandleMessageExistingChat(c, o) ==
    /\ hm[c].pc = "existingChat"
    /\ LET row == IF o = "ok"
                  THEN ExistingChat(chat_participants, cs[c].profile, hm[c].chatIds)
                  ELSE <<>>
           f == [hm[c] EXCEPT !.clean = @ /\ o = "ok"]
       IN  IF o = "throw"
           THEN HandleMessageReturn(c, f) /\ cs' = cs
           ELSE IF row # <<>>
           THEN /\ cs' = [cs EXCEPT ![c].nav = row[1]]
                /\ HandleMessageReturn(c, f)
           ELSE /\ hm' = [hm EXCEPT ![c] = [f EXCEPT !.pc = "newChat"]]
                /\ UNCHANGED <<cs, ran>>
    /\ UNCHANGED <<chats, chat_participants>>
    /\ UNCHANGED outsideChat

\* the id the chats table gives the inserted row
NewChatId(ids) == Cardinality(ids) + 1

\* const { data: newChat, error: chatError } = await ...insert({}).select().single();
\* if (chatError) throw chatError;
HandleMessageNewChat(c, o) ==
    /\ hm[c].pc = "newChat"
    /\ IF o = "ok"
       THEN /\ chats' = chats \cup {NewChatId(chats)}
            /\ hm' = [hm EXCEPT ![c].pc = "participants",
                                ![c].newChat = NewChatId(chats)]
            /\ ran' = ran
       ELSE /\ chats' = chats
            /\ HandleMessageReturn(c, [hm[c] EXCEPT !.clean = FALSE])
    /\ UNCHANGED <<chat_participants, cs>>
    /\ UNCHANGED outsideChat

\* The rows of lines 217-220.
ParticipantRows(chat, user, target) == {<<chat, user>>, <<chat, target>>}

\* await ...insert([...]) (its result is not looked at);
\* router.push(`/chat/${newChat.id}`)
HandleMessageParticipants(c, o) ==
    /\ hm[c].pc = "participants"
    /\ chat_participants' =
          IF o = "ok"
          THEN chat_participants \cup
                 ParticipantRows(hm[c].newChat, cs[c].currentUserId, cs[c].profile)
          ELSE chat_participants
    /\ cs' = IF o = "throw" THEN cs ELSE [cs EXCEPT ![c].nav = hm[c].newChat]
    /\ HandleMessageReturn(c, [hm[c] EXCEPT !.clean = @ /\ o = "ok"])
    /\ UNCHANGED chats
    /\ UNCHANGED outsideChat

\* ------------------------------------------------- tab layout: notifications
\* The notification badge, the notification list and the calls that feed
\* them.  The unread-messages counter shares no state with them (it reads
\* chat_participants and messages and writes unreadMessages only).
\* A call of these functions runs in three segments: up to the getUser await,
\* the backend call executing on the server, and the resumption with the
\* response.  Responses of overlapping calls may come back in any order.
RemoveAt(q, i) == SubSeq(q, 1, i - 1) \o SubSeq(q, i + 1, Len(q))

\* .eq('user_id', user.id).eq('read', false)
UnreadOf(tbl, user) ==
    {i \in DOMAIN tbl : tbl[i].user_id = user /\ ~tbl[i].read}

\* select('id', {count: 'exact', head: true}): the count of the matching rows
UnreadCount(tbl, user) == Cardinality(UnreadOf(tbl, user))

\* .eq('user_id', user.id).order('created_at', {ascending: false}):
\* the user's rows, newest first (ids grow with created_at)
RECURSIVE NotificationsOf(_, _, _)
NotificationsOf(tbl, user, n) ==
    IF n = 0 THEN <<>>
    ELSE IF tbl[n].user_id = user
         THEN <<n>> \o NotificationsOf(tbl, user, n - 1)
         ELSE NotificationsOf(tbl, user, n - 1)

\* .update({read: true}).eq('user_id', user.id).eq('read', false)
MarkRead(tbl, user) ==
    [i \in DOMAIN tbl |->
        IF tbl[i].user_id = user /\ ~tbl[i].read
        THEN [tbl[i] EXCEPT !.read = TRUE] ELSE tbl[i]]

\* A response without a count (an error result): count is null.
NoCount == -1

\* Mutant: a null count is stored as it is.
CountAsReturned(count) == count

\* count || 0
CountOrDefault(count) == IF count = NoCount \/ count = 0 THEN 0 ELSE count

NewCall == [pc |-> "getUser"]

\* The calls that are running.
Inflight == Len(fun) + Len(fnl) + Len(mrs)

\* A call of fetchUnreadNotifications (afterMark: it began after a mark call
\* had completed, with no row inserted in between).
NewUnreadCall(afterMark) ==
    [pc |-> "getUser", user |-> NULL, afterMark |-> afterMark,
     threw |-> FALSE, count |-> NoCount]

NotificationTables ==
    {<<>>,
     <<[user_id |-> Viewer, read |-> FALSE]>>,
     <<[user_id |-> "u2", read |-> FALSE]>>}

\* useState initial values, lines 97-100; the mount effect has called
\* fetchUnreadCounts() and subscribed the channel.
TabInit(t, mounted) ==
    /\ notifications = t
    /\ events = 0
    /\ tl = [unreadNotifications |-> 0, showNotifications |-> FALSE,
             notifications |-> <<>>, mounted |-> mounted, channel |-> mounted,
             unreadMessages |-> 0, messagesChannel |-> mounted,
             dropped |-> 0, noUser |-> FALSE,
             route |-> <<"/">>, pressed |-> 0, text |-> <<>>]
    /\ fun = IF mounted THEN <<NewUnreadCall(FALSE)>> ELSE <<>>
    /\ fnl = IF mounted THEN <<NewCall>> ELSE <<>>
    /\ mrs = <<>>
    /\ sinceMark = FALSE

\* setUnreadNotifications(n) (a state setter of an unmounted component does nothing)
SetUnreadNotifications(n) ==
    IF tl.mounted THEN [tl EXCEPT !.unreadNotifications = n] ELSE tl

\* fetchUnreadNotifications: getUser(); if (!user) return;
\* catch { setUnreadNotifications(0) }
\* (noUser: the last counter call that ended at getUser returned for want of
\* a user)
FetchUnreadNotificationsGetUser(i, o) ==
    /\ i \in DOMAIN fun
    /\ fun[i].pc = "getUser"
    /\ IF o = "throw"
       THEN /\ fun' = RemoveAt(fun, i)
            /\ tl' = [SetUnreadNotifications(0) EXCEPT !.noUser = FALSE]
       ELSE IF o = "error" \/ authUser = NULL
       THEN /\ fun' = RemoveAt(fun, i)
            /\ tl' = [tl EXCEPT !.noUser = TRUE]
       ELSE /\ fun' = [fun EXCEPT ![i] = [@ EXCEPT !.pc = "count", !.user = authUser]]
            /\ tl' = tl
    /\ UNCHANGED <<authUser, notifications, events, fnl, mrs, sinceMark>>
    /\ UNCHANGED outsideTabs

\* the count query executes on the server
FetchUnreadNotificationsCount(i, o) ==
    /\ i \in DOMAIN fun
    /\ fun[i].pc = "count"
    /\ fun' = [fun EXCEPT ![i] =
                 [@ EXCEPT !.pc = "resume",
                           !.threw = (o = "throw"),
                           !.count = IF o = "ok"
                                     THEN UnreadCount(notifications, fun[i].user)
                                     ELSE NoCount]]
    /\ UNCHANGED <<authUser, notifications, events, tl, fnl, mrs, sinceMark>>
    /\ UNCHANGED outsideTabs

\* setUnreadNotifications(count || 0); catch { setUnreadNotifications(0) }
FetchUnreadNotificationsResume(i) ==
    /\ i \in DOMAIN fun
    /\ fun[i].pc = "resume"
    /\ fun' = RemoveAt(fun, i)
    /\ tl' = SetUnreadNotifications(IF fun[i].threw THEN 0
                                    ELSE CountOrDefault(fun[i].count))
    /\ UNCHANGED <<authUser, notifications, events, fnl, mrs, sinceMark>>
    /\ UNCHANGED outsideTabs

\* fetchNotifications: getUser(); if (!user) return; catch { console.error }
FetchNotificationsGetUser(i, o) ==
    /\ i \in DOMAIN fnl
    /\ fnl[i].pc = "getUser"
    /\ fnl' = IF o = "ok" /\ authUser # NULL
              THEN [fnl EXCEPT ![i] = [pc |-> "select", user |-> authUser]]
              ELSE RemoveAt(fnl, i)
    /\ UNCHANGED <<authUser, notifications, events, tl, fun, mrs, sinceMark>>
    /\ UNCHANGED outsideTabs

\* the select executes on the server
FetchNotificationsSelect(i, o) ==
    /\ i \in DOMAIN fnl
    /\ fnl[i].pc = "select"
    /\ fnl' = [fnl EXCEPT ![i] =
                 [pc |-> "resume", failed |-> (o # "ok"),
                  data |-> IF o = "ok"
                           THEN NotificationsOf(notifications, fnl[i].user,
                                                Len(notifications))
                           ELSE <<>>]]
    /\ UNCHANGED <<authUser, notifications, events, tl, fun, mrs, sinceMark>>
    /\ UNCHANGED outsideTabs

\* Mutant: a failed select empties the list.
FetchNotificationsResumeClearing(i) ==
    /\ i \in DOMAIN fnl
    /\ fnl[i].pc = "resume"
    /\ fnl' = RemoveAt(fnl, i)
    /\ tl' = IF tl.mounted THEN [tl EXCEPT !.notifications = fnl[i].data] ELSE tl
    /\ UNCHANGED <<authUser, notifications, events, fun, mrs, sinceMark>>
    /\ UNCHANGED outsideTabs

\* if (error) throw error; setNotifications(data || [])
FetchNotificationsResume(i) ==
    /\ i \in DOMAIN fnl
    /\ fnl[i].pc = "resume"
    /\ fnl' = RemoveAt(fnl, i)
    /\ tl' = IF tl.mounted /\ ~fnl[i].failed
             THEN [tl EXCEPT !.notifications = fnl[i].data] ELSE tl
    /\ UNCHANGED <<authUser, notifications, events, fun, mrs, sinceMark>>
    /\ UNCHANGED outsideTabs

\* headerRight onPress: setShowNotifications(true); markNotificationsAsRead()
BellPress ==
    /\ tl.mounted
    /\ Inflight < MaxInflight
    /\ tl' = [tl EXCEPT !.showNotifications = TRUE]
    /\ mrs' = Append(mrs, NewCall)
    /\ UNCHANGED <<authUser, notifications, events, fun, fnl, sinceMark>>
    /\ UNCHANGED outsideTabs

\* markNotificationsAsRead: getUser(); if (!user) return; catch { console.error }
MarkNotificationsAsReadGetUser(i, o) ==
    /\ i \in DOMAIN mrs
    /\ mrs[i].pc = "getUser"
    /\ mrs' = IF o = "ok" /\ authUser # NULL
              THEN [mrs EXCEPT ![i] = [pc |-> "update", user |-> authUser]]
              ELSE RemoveAt(mrs, i)
    /\ UNCHANGED <<authUser, notifications, events, tl, fun, fnl, sinceMark>>
    /\ UNCHANGED outsideTabs

\* The table after the update of lines 218-222 answered with outcome o.
MarkUpdate(tbl, user, o) == IF o = "ok" THEN MarkRead(tbl, user) ELSE tbl

\* the update executes on the server (wasUnread: the rows it was to flip)
MarkNotificationsAsReadUpdate(i, o) ==
    /\ i \in DOMAIN mrs
    /\ mrs[i].pc = "update"
    /\ notifications' = MarkUpdate(notifications, mrs[i].user, o)
    /\ mrs' = [mrs EXCEPT ![i] =
                 [pc |-> "resume", outcome |-> o,
                  wasUnread |-> UnreadOf(notifications, mrs[i].user)]]
    /\ UNCHANGED <<authUser, events, tl, fun, fnl, sinceMark>>
    /\ UNCHANGED outsideTabs

\* Mutant: the continuation leaves the counter as it is.
MarkSettleNoReset(o) == tl

\* The view state after the awaited update resolved with outcome o.
MarkSettle(o) == IF o = "throw" THEN tl ELSE SetUnreadNotifications(0)

\* setUnreadNotifications(0); fetchNotifications();
MarkNotificationsAsReadResume(i) ==
    /\ i \in DOMAIN mrs
    /\ mrs[i].pc = "resume"
    /\ mrs' = RemoveAt(mrs, i)
    /\ tl' = MarkSettle(mrs[i].outcome)
    /\ fnl' = IF mrs[i].outcome = "throw" THEN fnl ELSE Append(fnl, NewCall)
    /\ sinceMark' = (sinceMark \/ mrs[i].outcome # "throw")
    /\ UNCHANGED <<authUser, notifications, events, fun>>
    /\ UNCHANGED outsideTabs

\* Somebody's action inserts a notification row; the server publishes the
\* INSERT on the table's channel.
NewNotification(u) ==
    /\ Len(notifications) < MaxNotifs
    /\ notifications' = Append(notifications, [user_id |-> u, read |-> FALSE])
    /\ events' = events + 1
    /\ sinceMark' = FALSE
    /\ UNCHANGED <<authUser, tl, fun, fnl, mrs>>
    /\ UNCHANGED outsideTabs

\* Mutant: the handler starts only fetchUnreadNotifications.
NotificationEventCountOnly ==
    /\ events > 0
    /\ events' = events - 1
    /\ IF tl.channel
       THEN /\ Inflight + 2 <= MaxInflight
            /\ fun' = Append(fun, NewUnreadCall(sinceMark))
            /\ fnl' = fnl
            /\ tl' = tl
       ELSE /\ UNCHANGED <<fun, fnl>>
            /\ tl' = [tl EXCEPT !.dropped = @ + 1]
    /\ UNCHANGED <<authUser, notifications, mrs, sinceMark>>
    /\ UNCHANGED outsideTabs

\* An INSERT event arrives: the handler of lines 112-115 runs when the channel
\* is still there: fetchUnreadNotifications(); fetchNotifications();
\* (dropped: the events that arrived after the channels were removed)
NotificationEvent ==
    /\ events > 0
    /\ events' = events - 1
    /\ IF tl.channel
       THEN /\ Inflight + 2 <= MaxInflight
            /\ fun' = Append(fun, NewUnreadCall(sinceMark))
            /\ fnl' = Append(fnl, NewCall)
            /\ tl' = tl
       ELSE /\ UNCHANGED <<fun, fnl>>
            /\ tl' = [tl EXCEPT !.dropped = @ + 1]
    /\ UNCHANGED <<authUser, notifications, mrs, sinceMark>>
    /\ UNCHANGED outsideTabs

\* Mutant: the cleanup removes the notifications channel only.
TabTeardownKeepingMessages ==
    /\ tl.mounted
    /\ tl' = [tl EXCEPT !.mounted = FALSE, !.channel = FALSE]
    /\ UNCHANGED <<authUser, notifications, events, fun, fnl, mrs, sinceMark>>
    /\ UNCHANGED outsideTabs

\* the effect's cleanup: removeChannel(notificationsChannel);
\* removeChannel(messagesChannel)
TabTeardown ==
    /\ tl.mounted
    /\ tl' = [tl EXCEPT !.mounted = FALSE, !.channel = FALSE,
                        !.messagesChannel = FALSE]
    /\ UNCHANGED <<authUser, notifications, events, fun, fnl, mrs, sinceMark>>
    /\ UNCHANGED outsideTabs

\* ------------------------------------------- tab layout: unread messages
\* The tab variables a fetchUnreadMessages call leaves alone.
notMessages == <<authUser, notifications, events, fun, fnl, mrs, sinceMark>>

outsideMessages == <<profileVars, chatVars, feedVars, rootVars>>

\* from('chat_participants').select('chat_id').eq('user_id', user.id)
ParticipatedChats(parts, user) == {p[1] : p \in {q \in parts : q[2] = user}}

\* .in('chat_id', chatIds).is('read_at', null).neq('user_id', user.id)
UnreadMessagesOf(tbl, chatIds, user) ==
    {i \in DOMAIN tbl : /\ tbl[i].chat_id \in chatIds
                        /\ tbl[i].read_at = NULL
                        /\ tbl[i].user_id # user}

\* A call of fetchUnreadMessages.
NewMessagesCall ==
    [pc |-> "getUser", user |-> NULL, chatIds |-> {}, threw |-> FALSE,
     count |-> NoCount]

MessageTables ==
    {<<>>, <<[chat_id |-> 1, user_id |-> "u2", read_at |-> NULL]>>}

\* The mount effect has called fetchUnreadCounts(), which calls
\* fetchUnreadMessages().
MessagesInit(m, mounted) ==
    msg = [messages |-> m, events |-> 0,
           calls |-> IF mounted THEN <<NewMessagesCall>> ELSE <<>>]

\* setUnreadMessages(n) (a state setter of an unmounted component does nothing)
SetUnreadMessages(n) ==
    IF tl.mounted THEN [tl EXCEPT !.unreadMessages = n] ELSE tl

\* fetchUnreadMessages: getUser(); if (!user) return;
\* catch { setUnreadMessages(0) }
FetchUnreadMessagesGetUser(i, o) ==
    /\ i \in DOMAIN msg.calls
    /\ msg.calls[i].pc = "getUser"
    /\ IF o = "throw"
       THEN /\ msg' = [msg EXCEPT !.calls = RemoveAt(@, i)]
            /\ tl' = [SetUnreadMessages(0) EXCEPT !.noUser = FALSE]
       ELSE IF o = "error" \/ authUser = NULL
       THEN /\ msg' = [msg EXCEPT !.calls = RemoveAt(@, i)]
            /\ tl' = [tl EXCEPT !.noUser = TRUE]
       ELSE /\ msg' = [msg EXCEPT !.calls[i].pc = "chats",
                                  !.calls[i].user = authUser]
            /\ tl' = tl
    /\ UNCHANGED notMessages
    /\ UNCHANGED outsideMessages

\* const { data: participatedChats } = await ...; if (!participatedChats) return;
\* (an error result carries data null; a rejection goes to the catch)
FetchUnreadMessagesChats(i, o) ==
    /\ i \in DOMAIN msg.calls
    /\ msg.calls[i].pc = "chats"
    /\ IF o = "throw"
       THEN /\ msg' = [msg EXCEPT !.calls = RemoveAt(@, i)]
            /\ tl' = SetUnreadMessages(0)
       ELSE IF o = "error"
       THEN /\ msg' = [msg EXCEPT !.calls = RemoveAt(@, i)]
            /\ tl' = tl
       ELSE /\ msg' = [msg EXCEPT
                         !.calls[i].pc = "count",
                         !.calls[i].chatIds =
                             ParticipatedChats(chat_participants, msg.calls[i].user)]
            /\ tl' = tl
    /\ UNCHANGED notMessages
    /\ UNCHANGED outsideMessages

\* the count query on messages executes on the server
FetchUnreadMessagesCount(i, o) ==
    /\ i \in DOMAIN msg.calls
    /\ msg.calls[i].pc = "count"
    /\ msg' = [msg EXCEPT
                 !.calls[i].pc = "resume",
                 !.calls[i].threw = (o = "throw"),
                 !.calls[i].count =
                     IF o = "ok"
                     THEN Cardinality(UnreadMessagesOf(msg.messages,
                                                       msg.calls[i].chatIds,
                                                       msg.calls[i].user))
                     ELSE NoCount]
    /\ UNCHANGED tl
    /\ UNCHANGED notMessages
    /\ UNCHANGED outsideMessages

\* setUnreadMessages(count || 0); catch { setUnreadMessages(0) }
FetchUnreadMessagesResume(i) ==
    /\ i \in DOMAIN msg.calls
    /\ msg.calls[i].pc = "resume"
    /\ msg' = [msg EXCEPT !.calls = RemoveAt(@, i)]
    /\ tl' = SetUnreadMessages(IF msg.calls[i].threw THEN 0
                               ELSE CountOrDefault(msg.calls[i].count))
    /\ UNCHANGED notMessages
    /\ UNCHANGED outsideMessages

\* Somebody sends a message; the server publishes the INSERT on the table's
\* channel.
NewMessage(chat, sender) ==
    /\ Len(msg.messages) < MaxMessages
    /\ msg' = [msg EXCEPT
                 !.messages = Append(@, [chat_id |-> chat, user_id |-> sender,
                                         read_at |-> NULL]),
                 !.events = @ + 1]
    /\ UNCHANGED tl
    /\ UNCHANGED notMessages
    /\ UNCHANGED outsideMessages

\* An INSERT event on messages arrives: the handler of lines 123-125 runs
\* when the channel is still there: fetchUnreadMessages();
MessageEvent ==
    /\ msg.events > 0
    /\ IF tl.messagesChannel
       THEN /\ Len(msg.calls) < MaxMessageCalls
            /\ msg' = [msg EXCEPT !.events = @ - 1,
                                  !.calls = Append(@, NewMessagesCall)]
            /\ tl' = tl
       ELSE /\ msg' = [msg EXCEPT !.events = @ - 1]
            /\ tl' = [tl EXCEPT !.dropped = @ + 1]
    /\ UNCHANGED notMessages
    /\ UNCHANGED outsideMessages

\* ------------------------------------------- tab layout: notification list
\* A notification as fetchNotifications returns it: the row with the actor's
\* profile snippet.  A text is the sequence of its parts, a route the
\* sequence of its path segments.
NotificationTypes == {"like", "comment", "follow", "comment_like", "reply"}

\* The payload stored with a notification of the type.
Payloads(type) ==
    IF type \in {"like", "comment"} THEN [post_id : {"p1", "p2"}]
    ELSE IF type = "follow" THEN [follower_id : {"u2", "u3"}]
    ELSE [post_id : {"p1"}, comment_id : {"c1", "c2"}]

NotificationItems ==
    UNION {[type : {t}, data : Payloads(t),
            user : [full_name : {"Ann", "Bob"}]] : t \in NotificationTypes}

\* onPress: () => {}
NoOp == [close |-> FALSE, push |-> <<>>]

\* switch (notification.type) { case 'like': ... case 'comment': ...
\* case 'follow': ... default: ... }
GetNotificationContent(notification) ==
    CASE notification.type = "like" ->
           [text |-> <<notification.user.full_name, " liked your post">>,
            onPress |-> [close |-> TRUE,
                         push |-> <<"/post/", notification.data.post_id>>]]
      [] notification.type = "comment" ->
           [text |-> <<notification.user.full_name, " commented on your post">>,
            onPress |-> [close |-> TRUE,
                         push |-> <<"/post/", notification.data.post_id>>]]
      [] notification.type = "follow" ->
           [text |-> <<notification.user.full_name, " followed you">>,
            onPress |-> [close |-> TRUE,
                         push |-> <<"/", notification.data.follower_id>>]]
      [] OTHER ->
           [text |-> <<"New notification">>, onPress |-> NoOp]

\* The dropdown is open on a fetched list.
NotificationListInit(list) ==
    /\ notifications = [k \in DOMAIN list |-> [user_id |-> Viewer, read |-> TRUE]]
    /\ events = 0
    /\ tl = [unreadNotifications |-> 0, showNotifications |-> TRUE,
             notifications |-> list, mounted |-> TRUE, channel |-> TRUE,
             unreadMessages |-> 0, messagesChannel |-> TRUE,
             dropped |-> 0, noUser |-> FALSE,
             route |-> <<"/">>, pressed |-> 0, text |-> <<>>]
    /\ fun = <<>>
    /\ fnl = <<>>
    /\ mrs = <<>>
    /\ sinceMark = FALSE

\* renderNotification: the item shows content.text and runs content.onPress
\* when pressed (pressed, text: the item pressed last and the text it showed)
PressNotification(k) ==
    /\ tl.mounted
    /\ tl.showNotifications
    /\ k \in DOMAIN tl.notifications
    /\ LET content == GetNotificationContent(tl.notifications[k])
       IN  tl' = [tl EXCEPT
                    !.pressed = k,
                    !.text = content.text,
                    !.showNotifications = IF content.onPress.close THEN FALSE ELSE @,
                    !.route = IF content.onPress.push # <<>>
                              THEN content.onPress.push ELSE @]
    /\ UNCHANGED <<authUser, notifications, events, fun, fnl, mrs, sinceMark>>
    /\ UNCHANGED outsideTabs

\* ------------------------------------------------------------ root layout
\* The sessions the auth backend may hold; NULL: signed out.
Sessions == {NULL, "s1", "s2"}

\* useState<Session | null>(null), useState(true); the mount effect has
\* called supabase.auth.getSession() and subscribed with onAuthStateChange.
\*   getSession: where the lookup is (reading, resolved, then, rejected, off)
\*   data:       the session the lookup read
\*   backend:    the session the auth backend holds
\*   events:     the session-change events not yet delivered
\*   changes:    the number of session changes so far
RootInit(pc, backend, pending) ==
    root = [session |-> NULL, isLoading |-> TRUE, getSession |-> pc,
            data |-> NULL, backend |-> backend, events |-> pending,
            changes |-> 0]

\* getSession() reads the stored session: it resolves with { data: { session } }
\* (session null with an error result) or rejects when the storage adapter
\* rejects.
GetSessionRead(o) ==
    /\ root.getSession = "reading"
    /\ root' = [root EXCEPT
                  !.getSession = IF o = "throw" THEN "rejected" ELSE "resolved",
                  !.data = IF o = "ok" THEN root.backend ELSE NULL]
    /\ UNCHANGED <<authUser, profileVars, chatVars, tabVars, feedVars, messageVars>>

\* .then(({ data: { session } }) => { setSession(session); setIsLoading(false); })
GetSessionThen ==
    /\ root.getSession = "resolved"
    /\ root' = [root EXCEPT !.getSession = "then",
                            !.session = root.data,
                            !.isLoading = FALSE]
    /\ UNCHANGED <<authUser, profileVars, chatVars, tabVars, feedVars, messageVars>>

\* onAuthStateChange((_event, session) => { setSession(session); })
OnAuthStateChange ==
    /\ root.getSession # "off"
    /\ root.events # <<>>
    /\ root' = [root EXCEPT !.session = Head(root.events),
                            !.events = Tail(root.events)]
    /\ UNCHANGED <<authUser, profileVars, chatVars, tabVars, feedVars, messageVars>>

\* The session changes on the auth backend (sign-in, sign-out, token
\* refresh); the client queues the event for its subscribers.
SessionChange(s) ==
    /\ root.getSession # "off"
    /\ root.changes < MaxChanges
    /\ s # root.backend
    /\ root' = [root EXCEPT !.backend = s,
                            !.events = Append(root.events, s),
                            !.changes = @ + 1]
    /\ UNCHANGED <<authUser, profileVars, chatVars, tabVars, feedVars, messageVars>>

\* ------------------------------------------------------------- feed screen
\* The list of posts as fetchPosts stores it and the draft of a new post
\* with handleCreatePost.  The likes table is read by fetchPosts and is not
\* written here.
\* The text of a draft is a string, a sequence of characters: the empty one,
\* two of white space only, and a word with white space around it.
Contents == {<<>>, <<" ">>, <<" ", " ">>, <<" ", "a", " ">>}

\* String.prototype.trim() taken literally as "leave the string as it is".
NoTrim(str) == str

RECURSIVE TrimStart(_)
TrimStart(str) ==
    IF str = <<>> THEN str
    ELSE IF Head(str) = " " THEN TrimStart(Tail(str)) ELSE str

RECURSIVE TrimEnd(_)
TrimEnd(str) ==
    IF str = <<>> THEN str
    ELSE IF str[Len(str)] = " " THEN TrimEnd(SubSeq(str, 1, Len(str) - 1)) ELSE str

\* content.trim(): the string without its leading and trailing white space
Trim(str) == TrimEnd(TrimStart(str))

\* let imageUrl = null: no stored object (object names start at 1)
NoObject == 0

\* !content.trim() && !selectedImage
NothingToPost(content, selectedImage) ==
    Trim(content) = <<>> /\ selectedImage = NULL

NoLocation == [none |-> TRUE]
Here == [latitude |-> 1, longitude |-> 2]

\* Mutant: the like edges of all posts are counted.
LikesCountAll(lks, id) == Cardinality(lks)

\* post.likes?.length || 0
LikesCount(lks, id) == Cardinality({l \in lks : l[1] = id})

\* Mutant: the rows come back oldest first.
RECURSIVE PostsOldestFirst(_, _, _, _)
PostsOldestFirst(tbl, lks, user, n) ==
    IF n = 0 THEN <<>>
    ELSE PostsOldestFirst(tbl, lks, user, n - 1)
         \o <<[id |-> n, likes |-> Cardinality({l \in lks : l[1] = n}),
                liked_by_user |-> (<<n, user>> \in lks)]>>

\* data.map(...) over the rows ordered by created_at descending (ids grow
\* with created_at)
RECURSIVE PostsWithCounts(_, _, _, _)
PostsWithCounts(tbl, lks, user, n) ==
    IF n = 0 THEN <<>>
    ELSE <<[id |-> n, likes |-> LikesCount(lks, n),
            liked_by_user |-> (<<n, user>> \in lks)]>>
         \o PostsWithCounts(tbl, lks, user, n - 1)

\* No call of handleCreatePost is running (last: whether the last call was
\* turned away at line 690, with an empty or with a blank content).
HcpIdle(last) ==
    [pc |-> "idle", content |-> <<>>, selectedImage |-> NULL,
     location |-> NoLocation, imageUrl |-> NoObject, outcome |-> "none",
     permission |-> "undetermined", last |-> last]

PostTables ==
    {<<>>, <<[content |-> <<"a">>, image_url |-> NoObject, location |-> NoLocation]>>}

\* useState initial values, lines 568-574; the mount effect has called checkUser().
FeedInit(t, lks, mounted) ==
    /\ posts = t
    /\ likes = lks
    /\ storage = {}
    /\ fs = [posts |-> <<>>, isCreating |-> FALSE, content |-> <<>>,
             selectedImage |-> NULL, location |-> NoLocation,
             isLoading |-> FALSE, refreshing |-> FALSE,
             permission |-> "undetermined",
             route |-> IF mounted THEN "/feed" ELSE "off"]
    /\ fcu = IF mounted THEN "getUser" ELSE "off"
    /\ fps = <<>>
    /\ hcp = HcpIdle("none")
    /\ hl = <<>>

\* No post: what posts.find returns for an id that is not in the list.
NoPost == 0

\* What happened to the list on screen while a handleLike call was running:
\* nothing (NoPost), one update by another handleLike call (the id of its
\* post), or more than that (Replaced).
Replaced == -1

\* The running calls learn that the list on screen was replaced (by = NoPost:
\* by fetchPosts; else by the handleLike call on post by).
Noted(calls, by) ==
    [j \in DOMAIN calls |->
        [calls[j] EXCEPT !.other = IF by # NoPost /\ @ = NoPost THEN by
                                   ELSE Replaced]]

\* A call of fetchPosts (refresh: made by onRefresh, which awaits it).
NewFetch(refresh) ==
    [pc |-> "getUser", user |-> NULL, refresh |-> refresh,
     failed |-> FALSE, data |-> <<>>]

\* checkUser: no user, or a throw: router.replace('/auth'); else fetchPosts()
FeedCheckUser(o) ==
    /\ fcu = "getUser"
    /\ fcu' = "done"
    /\ IF o = "ok" /\ authUser # NULL
       THEN /\ fps' = Append(fps, NewFetch(FALSE))
            /\ fs' = fs
       ELSE /\ fs' = [fs EXCEPT !.route = "/auth"]
            /\ fps' = fps
    /\ UNCHANGED <<authUser, posts, likes, storage, hcp, hl>>
    /\ UNCHANGED outsideFeed

\* A fetchPosts call ends; onRefresh then runs setRefreshing(false).
FetchPostsEnd(i, view) ==
    /\ fps' = RemoveAt(fps, i)
    /\ fs' = IF fps[i].refresh THEN [view EXCEPT !.refreshing = FALSE] ELSE view

\* fetchPosts: getUser(); if (!user) return; catch { console.error }
FetchPostsGetUser(i, o) ==
    /\ i \in DOMAIN fps
    /\ fps[i].pc = "getUser"
    /\ IF o = "ok" /\ authUser # NULL
       THEN /\ fps' = [fps EXCEPT ![i] = [@ EXCEPT !.pc = "select", !.user = authUser]]
            /\ fs' = fs
       ELSE FetchPostsEnd(i, fs)
    /\ UNCHANGED <<authUser, posts, likes, storage, fcu, hcp, hl>>
    /\ UNCHANGED outsideFeed

\* the select executes on the server
FetchPostsSelect(i, o) ==
    /\ i \in DOMAIN fps
    /\ fps[i].pc = "select"
    /\ fps' = [fps EXCEPT ![i] =
                 [@ EXCEPT !.pc = "resume", !.failed = (o # "ok"),
                           !.data = IF o = "ok"
                                    THEN PostsWithCounts(posts, likes, fps[i].user,
                                                         Len(posts))
                                    ELSE <<>>]]
    /\ UNCHANGED <<authUser, posts, likes, storage, fs, fcu, hcp, hl>>
    /\ UNCHANGED outsideFeed

\* if (error) throw error; setPosts(postsWithCounts)
FetchPostsResume(i) ==
    /\ i \in DOMAIN fps
    /\ fps[i].pc = "resume"
    /\ FetchPostsEnd(i, IF fps[i].failed THEN fs
                        ELSE [fs EXCEPT !.posts = fps[i].data])
    /\ hl' = IF fps[i].failed THEN hl ELSE Noted(hl, NoPost)
    /\ UNCHANGED <<authUser, posts, likes, storage, fcu, hcp>>
    /\ UNCHANGED outsideFeed

\* An edit of the draft in the modal.
EditDraft(view) ==
    /\ fs.route = "/feed"
    /\ fs.isCreating
    /\ fs' = view
    /\ fs' # fs
    /\ UNCHANGED <<authUser, posts, likes, storage, fcu, fps, hcp, hl>>
    /\ UNCHANGED outsideFeed

\* the floating button, line 915, and the modal's close button, line 839
SetIsCreating(b) ==
    /\ fs.route = "/feed"
    /\ fs.isCreating # b
    /\ fs' = [fs EXCEPT !.isCreating = b]
    /\ UNCHANGED <<authUser, posts, likes, storage, fcu, fps, hcp, hl>>
    /\ UNCHANGED outsideFeed

\* onChangeText={setContent}
SetContent(c) ==
    /\ c \in Contents
    /\ EditDraft([fs EXCEPT !.content = c])

\* pickImage: if (!result.canceled) setSelectedImage(result.assets[0].uri);
\* a throw of the picker is caught
PickImage(result) ==
    /\ result = "img1"
    /\ EditDraft([fs EXCEPT !.selectedImage = result])

\* onPress={() => setSelectedImage(null)}
RemoveImage ==
    /\ fs.selectedImage # NULL
    /\ EditDraft([fs EXCEPT !.selectedImage = NULL])

\* Mutant: a refused permission clears the location of the draft.
AttachLocationClearing(status) ==
    /\ status \in {"granted", "denied"}
    /\ EditDraft([fs EXCEPT !.permission = status,
                            !.location = IF status = "granted" THEN Here
                                         ELSE NoLocation])

\* attachLocation: if (status !== 'granted') return; setLocation({...})
\* (permission: the status the last request returned)
AttachLocation(status) ==
    /\ status \in {"granted", "denied"}
    /\ EditDraft(IF status # "granted"
                 THEN [fs EXCEPT !.permission = status]
                 ELSE [fs EXCEPT !.permission = status, !.location = Here])

\* onPress={() => setLocation(null)}
RemoveLocation ==
    /\ fs.location # NoLocation
    /\ EditDraft([fs EXCEPT !.location = NoLocation])

\* handleCreatePost up to its first await, called with the draft on screen:
\* if (!content.trim() && !selectedImage) return; setIsLoading(true); ...
HandleCreatePostStart ==
    /\ fs.route = "/feed"
    /\ fs.isCreating
    /\ hcp.pc = "idle"
    /\ IF NothingToPost(fs.content, fs.selectedImage)
       THEN /\ hcp' = HcpIdle(IF fs.content = <<>> THEN "rejectedEmpty"
                               ELSE "rejectedBlank")
            /\ fs' = fs
       ELSE /\ hcp' = [HcpIdle("none") EXCEPT
                         !.pc = IF fs.selectedImage # NULL THEN "upload" ELSE "insert",
                         !.content = fs.content,
                         !.selectedImage = fs.selectedImage,
                         !.location = fs.location,
                         !.permission = fs.permission]
            /\ fs' = [fs EXCEPT !.isLoading = TRUE]
    /\ UNCHANGED <<authUser, posts, likes, storage, fcu, fps, hl>>
    /\ UNCHANGED outsideFeed

\* 'post-' + Date.now() + '.jpg': a name no earlier upload has used
NewObject(objs) == Cardinality(objs) + 1

\* Mutant: a failed upload is ignored and the insert goes ahead without image.
HandleCreatePostUploadIgnoringFailure(o) ==
    /\ hcp.pc = "upload"
    /\ o = "ok" => Cardinality(storage) < MaxObjects
    /\ storage' = IF o = "ok" THEN storage \cup {NewObject(storage)} ELSE storage
    /\ hcp' = [hcp EXCEPT !.pc = "insert",
                          !.imageUrl = IF o = "ok" THEN NewObject(storage) ELSE NoObject]
    /\ fs' = fs
    /\ UNCHANGED <<authUser, posts, likes, fcu, fps, hl>>
    /\ UNCHANGED outsideFeed

\* storage.upload(...); if (uploadError) throw uploadError;
\* imageUrl = publicUrl; catch {...} finally { setIsLoading(false) }
HandleCreatePostUpload(o) ==
    /\ hcp.pc = "upload"
    /\ o = "ok" => Cardinality(storage) < MaxObjects
    /\ IF o = "ok"
       THEN /\ storage' = storage \cup {NewObject(storage)}
            /\ hcp' = [hcp EXCEPT !.pc = "insert", !.imageUrl = NewObject(storage)]
            /\ fs' = fs
       ELSE /\ storage' = storage
            /\ hcp' = HcpIdle("none")
            /\ fs' = [fs EXCEPT !.isLoading = FALSE]
    /\ UNCHANGED <<authUser, posts, likes, fcu, fps, hl>>
    /\ UNCHANGED outsideFeed

\* the insert into posts executes on the server
HandleCreatePostInsert(o) ==
    /\ hcp.pc = "insert"
    /\ o = "ok" => Len(posts) < MaxPosts
    /\ posts' = IF o = "ok"
                THEN Append(posts, [content |-> hcp.content,
                                    image_url |-> hcp.imageUrl,
                                    location |-> hcp.location])
                ELSE posts
    /\ hcp' = [hcp EXCEPT !.pc = "resume", !.outcome = o]
    /\ UNCHANGED <<authUser, likes, storage, fs, fcu, fps, hl>>
    /\ UNCHANGED outsideFeed

\* Mutant: the catch block removes the uploaded object when the insert failed.
HandleCreatePostResumeCompensating ==
    /\ hcp.pc = "resume"
    /\ IF hcp.outcome = "ok"
       THEN /\ Len(fps) < MaxFetches
            /\ fs' = [fs EXCEPT !.content = <<>>, !.selectedImage = NULL,
                                !.location = NoLocation, !.isCreating = FALSE,
                                !.isLoading = FALSE]
            /\ fps' = Append(fps, NewFetch(FALSE))
            /\ storage' = storage
       ELSE /\ fs' = [fs EXCEPT !.isLoading = FALSE]
            /\ fps' = fps
            /\ storage' = storage \ {hcp.imageUrl}
    /\ hcp' = HcpIdle("none")
    /\ UNCHANGED <<authUser, posts, likes, fcu, hl>>
    /\ UNCHANGED outsideFeed

\* if (postError) throw postError; setContent(''); setSelectedImage(null);
\* setLocation(null); setIsCreating(false); fetchPosts();
\* catch {...} finally { setIsLoading(false) }
HandleCreatePostResume ==
    /\ hcp.pc = "resume"
    /\ IF hcp.outcome = "ok"
       THEN /\ Len(fps) < MaxFetches
            /\ fs' = [fs EXCEPT !.content = <<>>, !.selectedImage = NULL,
                                !.location = NoLocation, !.isCreating = FALSE,
                                !.isLoading = FALSE]
            /\ fps' = Append(fps, NewFetch(FALSE))
            /\ hcp' = HcpIdle("none")
       ELSE /\ fs' = [fs EXCEPT !.isLoading = FALSE]
            /\ fps' = fps
            /\ hcp' = HcpIdle("none")
    /\ UNCHANGED <<authUser, posts, likes, storage, fcu, hl>>
    /\ UNCHANGED outsideFeed

\* ------------------------------------------------------ feed screen: likes
\* handleLike works on the posts list of the render in which the heart was
\* pressed: the call keeps that list (posts) through its awaits.
\* posts.find(p => p.id === postId)
FindPost(list, postId) ==
    LET hits == {k \in DOMAIN list : list[k].id = postId}
    IN  IF hits = {} THEN NoPost ELSE CHOOSE k \in hits : \A j \in hits : k <= j

\* Mutant: the counter goes up whatever the direction of the toggle.
LikeSettleAlwaysUp(list, postId, post) ==
    [k \in DOMAIN list |->
        IF list[k].id = postId
        THEN [list[k] EXCEPT !.likes = @ + 1,
                             !.liked_by_user = ~post.liked_by_user]
        ELSE list[k]]

\* posts.map(p => p.id === postId ? {...p, likes: post.liked_by_user ?
\* p.likes - 1 : p.likes + 1, liked_by_user: !post.liked_by_user} : p)
LikeSettle(list, postId, post) ==
    [k \in DOMAIN list |->
        IF list[k].id = postId
        THEN [list[k] EXCEPT !.likes = IF post.liked_by_user THEN @ - 1 ELSE @ + 1,
                             !.liked_by_user = ~post.liked_by_user]
        ELSE list[k]]

\* if (post.liked_by_user) delete().match({post_id, user_id}) else insert({...})
LikeWrite(tbl, post, user, o) ==
    IF o # "ok" THEN tbl
    ELSE IF post.liked_by_user THEN tbl \ {<<post.id, user>>}
    ELSE tbl \cup {<<post.id, user>>}

\* What the awaited call resolves to: a second like of the same user on the
\* same post is refused by the table.
LikeOutcome(tbl, post, user, o) ==
    IF o = "ok" /\ ~post.liked_by_user /\ <<post.id, user>> \in tbl
    THEN "error" ELSE o

\* onPress={() => handleLike(item.id)}: the call starts, awaiting getUser
HandleLikeStart(postId) ==
    /\ fs.route = "/feed"
    /\ Len(hl) < MaxLikeCalls
    /\ FindPost(fs.posts, postId) # NoPost
    /\ hl' = Append(hl, [pc |-> "getUser", postId |-> postId, posts |-> fs.posts,
                         user |-> NULL, threw |-> FALSE,
                         other |-> NoPost])
    /\ UNCHANGED <<authUser, posts, likes, storage, fs, fcu, fps, hcp>>
    /\ UNCHANGED outsideFeed

\* getUser(); if (!user) return; catch { console.error }
HandleLikeGetUser(i, o) ==
    /\ i \in DOMAIN hl
    /\ hl[i].pc = "getUser"
    /\ hl' = IF o = "ok" /\ authUser # NULL
             THEN [hl EXCEPT ![i] = [@ EXCEPT !.pc = "backend", !.user = authUser]]
             ELSE RemoveAt(hl, i)
    /\ UNCHANGED <<authUser, posts, likes, storage, fs, fcu, fps, hcp>>
    /\ UNCHANGED outsideFeed

\* const post = posts.find(...); the delete or the insert executes on the server
HandleLikeBackend(i, o) ==
    /\ i \in DOMAIN hl
    /\ hl[i].pc = "backend"
    /\ LET post == hl[i].posts[FindPost(hl[i].posts, hl[i].postId)]
       IN  /\ likes' = LikeWrite(likes, post, hl[i].user,
                                 LikeOutcome(likes, post, hl[i].user, o))
           /\ hl' = [hl EXCEPT ![i] =
                       [@ EXCEPT !.pc = "settle", !.threw = (o = "throw")]]
    /\ UNCHANGED <<authUser, posts, storage, fs, fcu, fps, hcp>>
    /\ UNCHANGED outsideFeed

\* setPosts(posts.map(...)); catch { console.error }
HandleLikeSettle(i) ==
    /\ i \in DOMAIN hl
    /\ hl[i].pc = "settle"
    /\ IF hl[i].threw
       THEN /\ fs' = fs
            /\ hl' = RemoveAt(hl, i)
       ELSE /\ fs' = [fs EXCEPT !.posts =
                        LikeSettle(hl[i].posts, hl[i].postId,
                                   hl[i].posts[FindPost(hl[i].posts, hl[i].postId)])]
            /\ hl' = Noted(RemoveAt(hl, i), hl[i].postId)
    /\ UNCHANGED <<authUser, posts, likes, storage, fcu, fps, hcp>>
    /\ UNCHANGED outsideFeed

\* onRefresh: setRefreshing(true); await fetchPosts(); setRefreshing(false)
OnRefresh ==
    /\ fs.route = "/feed"
    /\ fcu = "done"
    /\ ~fs.refreshing
    /\ Len(fps) < MaxFetches
    /\ fs' = [fs EXCEPT !.refreshing = TRUE]
    /\ fps' = Append(fps, NewFetch(TRUE))
    /\ UNCHANGED <<authUser, posts, likes, storage, fcu, hcp, hl>>
    /\ UNCHANGED outsideFeed

\* --------------------------------------------------------- specifications
\* The screens that are not part of a specification stay unmounted.
ProfileOff ==
    /\ profiles = Users
    /\ follows = {}
    /\ postsOf = [u \in Users |-> 0]
    /\ UpInit(FALSE)
    /\ PsInit(FALSE)

ChatOff == ChatInit([chats |-> {}, parts |-> {}])

MessagesOff == MessagesInit(<<>>, FALSE)

TabOff ==
    /\ TabInit(<<>>, FALSE)
    /\ MessagesOff

FeedOff == FeedInit(<<>>, {}, FALSE)

RootOff == RootInit("off", NULL, <<>>)

\* The two profile screens against the profiles and follows tables.
ProfileInit ==
    /\ RootOff
    /\ BackendInit
    /\ \E own \in BOOLEAN : UpInit(~own) /\ PsInit(own)
    /\ ChatOff
    /\ TabOff
    /\ FeedOff

ProfileNext ==
    \/ \E o \in Outcomes : CheckUser(o)
    \/ \E o \in Outcomes : FetchProfileGetUser(o)
    \/ \E o \in Outcomes : FetchProfileBase(o)
    \/ \E o \in Outcomes : FetchProfileFollowers(o)
    \/ \E o \in Outcomes : FetchProfileFollowing(o)
    \/ \E o \in Outcomes : FetchProfileIsFollowing(o)
    \/ \E o \in Outcomes : FetchUserPosts(o)
    \/ HandleFollowStart
    \/ \E o \in Outcomes : HandleFollowGetUser(o)
    \/ \E o \in Outcomes : HandleFollowBackend(o)
    \/ HandleFollowSettle
    \/ \E o \in Outcomes : OwnFetchProfileGetUser(o)
    \/ \E o \in Outcomes : OwnFetchProfileBase(o)
    \/ \E o \in Outcomes : OwnFetchProfileFollowers(o)
    \/ \E o \in Outcomes : OwnFetchProfileFollowing(o)
    \/ \E o \in Outcomes : OwnFetchProfilePosts(o)
    \/ \E o \in Outcomes : OwnFetchUserPostsGetUser(o)
    \/ \E o \in Outcomes : OwnFetchUserPostsQuery(o)
    \/ \E a \in Users, b \in Users : ExternalFollow(a, b)
    \/ SessionEnd

SpecProfile == ProfileInit /\ [][ProfileNext]_vars

\* Two clients starting a chat with each other.
MessagingInit ==
    /\ RootOff
    /\ authUser = Viewer
    /\ ProfileOff
    /\ \E t \in ChatTables : ChatInit(t)
    /\ TabOff
    /\ FeedOff

MessagingNext ==
    \/ \E c \in Clients : HandleMessageStart(c)
    \/ \E c \in Clients, o \in Outcomes : HandleMessageExistingChats(c, o)
    \/ \E c \in Clients, o \in Outcomes : HandleMessageExistingChat(c, o)
    \/ \E c \in Clients, o \in Outcomes : HandleMessageNewChat(c, o)
    \/ \E c \in Clients, o \in Outcomes : HandleMessageParticipants(c, o)

SpecMessaging == MessagingInit /\ [][MessagingNext]_vars

\* The tab layout's notification badge and list.
TabsInit ==
    /\ RootOff
    /\ authUser \in {Viewer, NULL}
    /\ ProfileOff
    /\ ChatOff
    /\ \E t \in NotificationTables : TabInit(t, TRUE)
    /\ MessagesOff
    /\ FeedOff

TabsNext ==
    \/ \E i \in 1..MaxInflight, o \in Outcomes : FetchUnreadNotificationsGetUser(i, o)
    \/ \E i \in 1..MaxInflight, o \in Outcomes : FetchUnreadNotificationsCount(i, o)
    \/ \E i \in 1..MaxInflight : FetchUnreadNotificationsResume(i)
    \/ \E i \in 1..MaxInflight, o \in Outcomes : FetchNotificationsGetUser(i, o)
    \/ \E i \in 1..MaxInflight, o \in Outcomes : FetchNotificationsSelect(i, o)
    \/ \E i \in 1..MaxInflight : FetchNotificationsResume(i)
    \/ BellPress
    \/ \E i \in 1..MaxInflight, o \in Outcomes : MarkNotificationsAsReadGetUser(i, o)
    \/ \E i \in 1..MaxInflight, o \in Outcomes : MarkNotificationsAsReadUpdate(i, o)
    \/ \E i \in 1..MaxInflight : MarkNotificationsAsReadResume(i)
    \/ \E u \in {Viewer, "u2"} : NewNotification(u)
    \/ NotificationEvent
    \/ TabTeardown

SpecTabs == TabsInit /\ [][TabsNext]_vars

\* The feed screen: the list of posts and the draft of a new post.
FeedScreenInit ==
    /\ RootOff
    /\ authUser \in {Viewer, NULL}
    /\ ProfileOff
    /\ ChatOff
    /\ TabOff
    /\ \E t \in PostTables :
          FeedInit(t, {<<n, "u2">> : n \in DOMAIN t}, TRUE)

FeedNext ==
    \/ \E o \in Outcomes : FeedCheckUser(o)
    \/ \E i \in 1..MaxFetches, o \in Outcomes : FetchPostsGetUser(i, o)
    \/ \E i \in 1..MaxFetches, o \in Outcomes : FetchPostsSelect(i, o)
    \/ \E i \in 1..MaxFetches : FetchPostsResume(i)
    \/ \E b \in BOOLEAN : SetIsCreating(b)
    \/ \E c \in Contents : SetContent(c)
    \/ \E r \in {"canceled", "throw", "img1"} : PickImage(r)
    \/ RemoveImage
    \/ \E st \in {"granted", "denied"} : AttachLocation(st)
    \/ RemoveLocation
    \/ HandleCreatePostStart
    \/ \E o \in Outcomes : HandleCreatePostUpload(o)
    \/ \E o \in Outcomes : HandleCreatePostInsert(o)
    \/ HandleCreatePostResume

SpecFeed == FeedScreenInit /\ [][FeedNext]_vars

\* The feed screen: the list of posts under fetchPosts and handleLike.
TwoPosts ==
    <<[content |-> <<"a">>, image_url |-> NoObject, location |-> NoLocation],
      [content |-> <<"a">>, image_url |-> NoObject, location |-> NoLocation]>>

LikesInit ==
    /\ RootOff
    /\ authUser \in {Viewer, NULL}
    /\ ProfileOff
    /\ ChatOff
    /\ TabOff
    /\ \E lks \in {{}, {<<1, Viewer>>}, {<<1, "u2">>, <<2, Viewer>>}} :
          FeedInit(TwoPosts, lks, TRUE)

LikesNext ==
    \/ \E o \in Outcomes : FeedCheckUser(o)
    \/ \E i \in 1..MaxFetches, o \in Outcomes : FetchPostsGetUser(i, o)
    \/ \E i \in 1..MaxFetches, o \in Outcomes : FetchPostsSelect(i, o)
    \/ \E i \in 1..MaxFetches : FetchPostsResume(i)
    \/ OnRefresh
    \/ \E postId \in DOMAIN TwoPosts : HandleLikeStart(postId)
    \/ \E i \in 1..MaxLikeCalls, o \in Outcomes : HandleLikeGetUser(i, o)
    \/ \E i \in 1..MaxLikeCalls, o \in Outcomes : HandleLikeBackend(i, o)
    \/ \E i \in 1..MaxLikeCalls : HandleLikeSettle(i)

SpecLikes == LikesInit /\ [][LikesNext]_vars

\* The notification dropdown, open on a list of one or two notifications.
NotificationListStart ==
    /\ RootOff
    /\ MessagesOff
    /\ authUser = Viewer
    /\ ProfileOff
    /\ ChatOff
    /\ FeedOff
    /\ \E a \in NotificationItems :
          \/ NotificationListInit(<<a>>)
          \/ \E b \in NotificationItems : NotificationListInit(<<a, b>>)

NotificationListNext ==
    \E k \in 1..2 : PressNotification(k)

SpecNotificationList == NotificationListStart /\ [][NotificationListNext]_vars

\* TabLayout with its two channels: the counters and the list against the
\* notifications and messages tables (markNotificationsAsRead is left to
\* SpecTabs).
ChannelsInit ==
    /\ RootOff
    /\ authUser \in {Viewer, NULL}
    /\ ProfileOff
    /\ ChatInit([chats |-> {1}, parts |-> {<<1, "u1">>, <<1, "u2">>}])
    /\ TabInit(<<>>, TRUE)
    /\ \E m \in MessageTables : MessagesInit(m, TRUE)
    /\ FeedOff

ChannelsNext ==
    \/ \E i \in 1..MaxInflight, o \in Outcomes : FetchUnreadNotificationsGetUser(i, o)
    \/ \E i \in 1..MaxInflight, o \in Outcomes : FetchUnreadNotificationsCount(i, o)
    \/ \E i \in 1..MaxInflight : FetchUnreadNotificationsResume(i)
    \/ \E i \in 1..MaxInflight, o \in Outcomes : FetchNotificationsGetUser(i, o)
    \/ \E i \in 1..MaxInflight, o \in Outcomes : FetchNotificationsSelect(i, o)
    \/ \E i \in 1..MaxInflight : FetchNotificationsResume(i)
    \/ \E i \in 1..MaxMessageCalls, o \in Outcomes : FetchUnreadMessagesGetUser(i, o)
    \/ \E i \in 1..MaxMessageCalls, o \in Outcomes : FetchUnreadMessagesChats(i, o)
    \/ \E i \in 1..MaxMessageCalls, o \in Outcomes : FetchUnreadMessagesCount(i, o)
    \/ \E i \in 1..MaxMessageCalls : FetchUnreadMessagesResume(i)
    \/ \E u \in {Viewer, "u2"} : NewNotification(u)
    \/ NotificationEvent
    \/ \E sender \in {Viewer, "u2"} : NewMessage(1, sender)
    \/ MessageEvent
    \/ TabTeardown
    \/ SessionEnd

SpecChannels == ChannelsInit /\ [][ChannelsNext]_vars

\* The three screens that load a list or a profile, each from its mount:
\* FeedScreen.fetchPosts, TabLayout.fetchNotifications and
\* ProfileScreen.fetchProfile against fixed tables.
FetchesInit ==
    /\ RootOff
    /\ MessagesOff
    /\ authUser \in {Viewer, NULL}
    /\ profiles = Users
    /\ follows = {<<"u2", "u1">>}
    /\ postsOf = [u \in Users |-> 0]
    /\ UpInit(FALSE)
    /\ PsInit(TRUE)
    /\ ChatOff
    /\ TabInit(<<>>, TRUE)
    /\ FeedInit(TwoPosts, {}, TRUE)

FetchesNext ==
    \/ \E o \in Outcomes : FeedCheckUser(o)
    \/ \E i \in 1..MaxFetches, o \in Outcomes : FetchPostsGetUser(i, o)
    \/ \E i \in 1..MaxFetches, o \in Outcomes : FetchPostsSelect(i, o)
    \/ \E i \in 1..MaxFetches : FetchPostsResume(i)
    \/ OnRefresh
    \/ \E i \in 1..MaxInflight, o \in Outcomes : FetchUnreadNotificationsGetUser(i, o)
    \/ \E i \in 1..MaxInflight, o \in Outcomes : FetchUnreadNotificationsCount(i, o)
    \/ \E i \in 1..MaxInflight : FetchUnreadNotificationsResume(i)
    \/ \E i \in 1..MaxInflight, o \in Outcomes : FetchNotificationsGetUser(i, o)
    \/ \E i \in 1..MaxInflight, o \in Outcomes : FetchNotificationsSelect(i, o)
    \/ \E i \in 1..MaxInflight : FetchNotificationsResume(i)
    \/ \E u \in {Viewer, "u2"} : NewNotification(u)
    \/ NotificationEvent
    \/ \E o \in Outcomes : OwnFetchProfileGetUser(o)
    \/ \E o \in Outcomes : OwnFetchProfileBase(o)
    \/ \E o \in Outcomes : OwnFetchProfileFollowers(o)
    \/ \E o \in Outcomes : OwnFetchProfileFollowing(o)
    \/ \E o \in Outcomes : OwnFetchProfilePosts(o)

SpecFetches == FetchesInit /\ [][FetchesNext]_vars

\* RootLayout from its mount, with the session the backend holds; the
\* client may announce that session to the new subscriber.
RootStart ==
    /\ authUser = NULL
    /\ ProfileOff
    /\ ChatOff
    /\ TabOff
    /\ FeedOff
    /\ \E s \in Sessions :
          \/ RootInit("reading", s, <<>>)
          \/ RootInit("reading", s, <<s>>)

RootNext ==
    \/ \E o \in Outcomes : GetSessionRead(o)
    \/ GetSessionThen
    \/ OnAuthStateChange
    \/ \E s \in Sessions : SessionChange(s)

SpecRoot == RootStart /\ [][RootNext]_vars

\* ------------------------------------------------------------------ claims

\* C2: two handleFollow calls run one after the other, each completing
\* successfully and with no other change to the follows table in between,
\* leave the server edge (viewer, target), the local is_following flag and
\* the local followers_count exactly as they were before the first call.
C2_TwoTogglesRestore ==
    (Len(tog.hist) = 2 /\ hf.pc = "idle") => FollowState = tog.hist[1]

\* C3: when the backend delete or insert of handleFollow fails (an error
\* result or a rejected promise), the local is_following flag and the local
\* followers_count keep the values they had before the call.
C3_FailedFollowKeepsLocal ==
    [][(hf.pc = "settle" /\ hf.outcome \in {"error", "throw"})
         => /\ up'.profile.is_following = hf.profile.is_following
            /\ up'.profile.followers_count = hf.profile.followers_count]_vars

\* C7: after a handleFollow call whose backend delete or insert returns
\* without error, the server edge (viewer, target) exists exactly when it did
\* not exist before the call.
C7_FollowInvertsEdge ==
    [][(hf.pc = "backend" /\ hf'.pc = "settle" /\ hf'.outcome = "ok")
         => ((<<hf.user, hf.profile.id>> \in follows')
               # (<<hf.user, hf.profile.id>> \in follows))]_vars

\* C9: when fetchProfile succeeds, the stored followers_count is the number
\* of follow edges whose following_id is the profile id in the follows table
\* as it was when the follower-count query ran, and the stored
\* following_count is the number of edges whose follower_id is that id in the
\* table as it was when the following-count query ran (both profile screens).
C9_CountsMatchEdgesAtQueryTime ==
    [][/\ (fp.pc = "isFollowing" /\ up'.profile # NoProfile)
            => /\ up'.profile.followers_count
                    = Cardinality({e \in fp.followersAt : e[2] = up.id})
               /\ up'.profile.following_count
                    = Cardinality({e \in fp.followingAt : e[1] = up.id})
       /\ (pfp.pc = "posts" /\ ps'.profile # NoProfile)
            => /\ ps'.profile.followers_count
                    = Cardinality({e \in pfp.followersAt : e[2] = pfp.user})
               /\ ps'.profile.following_count
                    = Cardinality({e \in pfp.followingAt : e[1] = pfp.user})]_vars

\* A profile stored with two followers and one followed user.
C9_Witness ==
    /\ up.mounted
    /\ fp.pc = "done"
    /\ hf.pc = "idle"
    /\ up.profile # NoProfile
    /\ up.profile.followers_count = 2
    /\ up.profile.following_count = 1

\* C10: when the base profile lookup of the user-profile screen returns an
\* error or no row, no Profile record is stored, loading ends and the screen
\* shows the not-found outcome.
C10_BaseLookupFailureIsNotFound ==
    [][(fp.pc = "base" /\ fp'.pc # "followers" /\ fp' # fp)
         => /\ up'.profile = NoProfile
            /\ ~up'.loading
            /\ Render(up') = "notFound"]_vars

\* The profile row is missing: the lookup ran for a signed-in viewer and the
\* screen is left without a profile.
C10_Witness ==
    /\ up.mounted
    /\ fp.pc = "done"
    /\ up.currentUserId # NULL
    /\ up.id \notin profiles
    /\ up.profile = NoProfile
    /\ ~up.loading

\* C1: for two users who share no chat, handleMessage run by each towards
\* the other, interleaved in any order of their backend calls, never ends
\* with two distinct chats that both have the two users as participants.
C1_NoDuplicateChat ==
    (/\ \A c \in Clients : hm[c].pc = "idle" /\ ran[c] = "cleanNoShared")
      => Cardinality(SharedChats(chat_participants, "u1", "u2")) <= 1

\* C5: whenever handleMessage runs while at least one chat already has both
\* users as participants (one such chat or several), it navigates to one of
\* those chats and inserts no chat row and no participant rows.  (Stated for
\* the runs whose backend calls are all answered without error.)
C5_ExistingChatIsReused ==
    [][\A c \in Clients :
         (/\ hm[c].pc # "idle" /\ hm'[c] # hm[c] /\ hm[c].shared # {}
          /\ IF hm'[c].pc = "idle" THEN ran'[c] = "cleanShared" ELSE hm'[c].clean)
           => /\ chats' = chats
              /\ chat_participants' = chat_participants
              /\ hm'[c].pc = "idle" => cs'[c].nav \in hm[c].shared]_vars

\* C6: whenever handleMessage navigates to a chat it has just created, that
\* chat has exactly two participant rows, one for the current user and one
\* for the target user.
C6_CreatedChatHasBothParticipants ==
    [][\A c \in Clients :
         (hm[c].pc = "participants" /\ hm'[c].pc = "idle"
            /\ cs'[c].nav = hm[c].newChat)
           => {r \in chat_participants' : r[1] = hm[c].newChat}
                = {<<hm[c].newChat, c>>, <<hm[c].newChat, Target(c)>>}]_vars


\* ------------------------------------------------------- claims: tab layout
\* C4: when a call of markNotificationsAsRead completes (its awaited update did
\* not throw) on the mounted layout, the unread-notifications counter is 0 and
\* every row of the user that was unread when the update ran has read = true;
\* and a fetchUnreadNotifications call that began after such a completion,
\* with no row inserted since, leaves the counter at 0 when it completes.
C4_MarkReadsAllAndStaysZero ==
    [][/\ \A i \in DOMAIN mrs :
            ( /\ mrs[i].pc = "resume"
              /\ mrs[i].outcome # "throw"
              /\ mrs' = RemoveAt(mrs, i)
              /\ tl.mounted )
            => /\ tl'.unreadNotifications = 0
               /\ \A n \in mrs[i].wasUnread : notifications'[n].read
       /\ \A i \in DOMAIN fun :
            ( /\ fun[i].pc = "resume"
              /\ fun' = RemoveAt(fun, i)
              /\ fun[i].afterMark
              /\ sinceMark
              /\ tl.mounted )
            => tl'.unreadNotifications = 0
      ]_vars


\* ------------------------------------------------------ claims: feed screen
\* C8: a call of handleCreatePost with a draft whose content is empty or only
\* white space and with no selected image returns at once: no upload and no
\* insert is issued (the call is not left waiting for one, the bucket and the
\* posts table are as before) and the view state (isLoading, content,
\* selectedImage, location, isCreating, posts) is as before.
C8_EmptyDraftIsRejected ==
    [][( /\ hcp.pc = "idle"
         /\ hcp' # hcp
         /\ fs.selectedImage = NULL
         /\ \A k \in DOMAIN fs.content : fs.content[k] = " " )
       => /\ hcp'.pc = "idle"
          /\ hcp'.last \in {"rejectedEmpty", "rejectedBlank"}
          /\ fs' = fs
          /\ storage' = storage
          /\ posts' = posts
      ]_vars

\* A draft of white space only, without an image, was submitted and rejected.
C8_Witness ==
    /\ hcp.pc = "idle"
    /\ hcp.last = "rejectedBlank"
    /\ ~fs.isLoading

\* --------------------------------------------- claims: profile fetch errors
\* C11: when the follower-count, the following-count or the is-following
\* query of fetchProfile fails, the call goes to its catch block and stores
\* no profile: the stored profile is what it was before (on the own-profile
\* screen the edited copy too, and the error banner is set).
C11_CountFailurePropagates ==
    [][/\ ( /\ fp.pc \in {"followers", "following", "isFollowing"}
            /\ fp'.pc = "done"
            /\ fp'.failedAt # "none" )
          => /\ fp'.failedAt = fp.pc
             /\ up'.profile = up.profile
       /\ ( /\ pfp.pc \in {"followers", "following"}
            /\ pfp'.pc = "done" )
          => /\ ps'.profile = ps.profile
             /\ ps'.editedProfile = ps.editedProfile
             /\ ps'.error = "Failed to load profile data"
      ]_vars

\* The is-following query failed while the viewer does follow the shown
\* user: the screen holds no profile.
C11_Witness ==
    /\ up.mounted
    /\ fp.pc = "done"
    /\ fp.failedAt = "isFollowing"
    /\ <<Viewer, up.id>> \in follows
    /\ up.profile = NoProfile
    /\ ~up.loading

\* ------------------------------------------------------- claims: feed likes
\* C12: with posts of distinct creation times (a post's id is its rank in
\* creation order), the list on screen is in strictly descending order of
\* creation after any sequence of fetchPosts and handleLike calls.
C12_FeedDescending ==
    \A i \in DOMAIN fs.posts : \A j \in DOMAIN fs.posts :
        i < j => fs.posts[i].id > fs.posts[j].id

\* Two posts on screen, one of them updated by handleLike only (the like
\* is not in the table).
C12_Witness ==
    /\ Len(fs.posts) = 2
    /\ hl = <<>>
    /\ fps = <<>>
    /\ \E k \in DOMAIN fs.posts :
          fs.posts[k].liked_by_user /\ <<fs.posts[k].id, Viewer>> \notin likes

\* C13: the list fetchPosts stores is the one its select read, and in it every
\* post's likes is the number of like edges on the post in the likes table
\* as it was when the select ran, and liked_by_user says whether one of them
\* is the edge of the user the call is made for.
C13_FetchedLikesMatchSnapshot ==
    [][\A i \in DOMAIN fps :
         /\ ( /\ fps[i].pc = "select"
              /\ Len(fps') = Len(fps)
              /\ fps'[i].pc = "resume"
              /\ ~fps'[i].failed )
            => /\ {fps'[i].data[k].id : k \in DOMAIN fps'[i].data} = DOMAIN posts
               /\ \A k \in DOMAIN fps'[i].data :
                    /\ fps'[i].data[k].likes
                         = Cardinality({u \in Users : <<fps'[i].data[k].id, u>> \in likes})
                    /\ fps'[i].data[k].liked_by_user
                         = (<<fps'[i].data[k].id, fps[i].user>> \in likes)
         /\ ( /\ fps[i].pc = "resume"
              /\ ~fps[i].failed
              /\ fps' = RemoveAt(fps, i) )
            => fs'.posts = fps[i].data
      ]_vars

\* A fetch has read a post with two likes, one of them the viewer's.
C13_Witness ==
    \E i \in DOMAIN fps :
        /\ fps[i].pc = "resume"
        /\ ~fps[i].failed
        /\ \E k \in DOMAIN fps[i].data :
              fps[i].data[k].likes = 2 /\ fps[i].data[k].liked_by_user

\* C14 as stated: whenever a handleLike call on post p completes, p's entry
\* on screen has liked_by_user negated and likes moved by one in the
\* direction of the toggle, with respect to the list the call was made on,
\* and every other entry is as in that list.
C14_LikeFlipsOnCompletion ==
    [][\A i \in DOMAIN hl :
         LET call == hl[i]
             rest == RemoveAt(hl, i)
             completes ==
                 /\ Len(hl') = Len(hl) - 1
                 /\ \A j \in DOMAIN hl' :
                       [hl'[j] EXCEPT !.other = NoPost]
                         = [rest[j] EXCEPT !.other = NoPost]
         IN  completes
               => /\ DOMAIN fs'.posts = DOMAIN call.posts
                  /\ \A k \in DOMAIN call.posts :
                       IF call.posts[k].id = call.postId
                       THEN /\ fs'.posts[k].id = call.postId
                            /\ fs'.posts[k].liked_by_user = ~call.posts[k].liked_by_user
                            /\ fs'.posts[k].likes
                                 = IF call.posts[k].liked_by_user
                                   THEN call.posts[k].likes - 1
                                   ELSE call.posts[k].likes + 1
                       ELSE fs'.posts[k] = call.posts[k]
      ]_vars

\* C14, amended: a handleLike call on post p that reaches its local update
\* (a user is signed in and the delete or insert did not throw; an error
\* result counts as reaching it) leaves p's entry with liked_by_user negated
\* and likes moved by one in the direction of the toggle, with respect to the
\* list the call was made on, and every other entry as in that list; a call
\* that returns at the user check or whose backend call throws leaves the
\* list on screen as it is.
C14_LikeFlipsWhenUpdateReached ==
    [][\A i \in DOMAIN hl :
         LET call == hl[i]
             rest == RemoveAt(hl, i)
             completes ==
                 /\ Len(hl') = Len(hl) - 1
                 /\ \A j \in DOMAIN hl' :
                       [hl'[j] EXCEPT !.other = NoPost]
                         = [rest[j] EXCEPT !.other = NoPost]
         IN  completes
               => IF call.pc = "settle" /\ ~call.threw
                  THEN /\ DOMAIN fs'.posts = DOMAIN call.posts
                       /\ \A k \in DOMAIN call.posts :
                            IF call.posts[k].id = call.postId
                            THEN /\ fs'.posts[k].id = call.postId
                                 /\ fs'.posts[k].liked_by_user
                                      = ~call.posts[k].liked_by_user
                                 /\ fs'.posts[k].likes
                                      = IF call.posts[k].liked_by_user
                                        THEN call.posts[k].likes - 1
                                        ELSE call.posts[k].likes + 1
                            ELSE fs'.posts[k] = call.posts[k]
                  ELSE fs'.posts = fs.posts
      ]_vars

\* No call is running, post 2 is shown as no longer liked with no like left,
\* while the viewer's like edge on it is gone from the table: an unlike went
\* through.
C14_Witness ==
    /\ hl = <<>>
    /\ fps = <<>>
    /\ Len(fs.posts) = 2
    /\ \E k \in DOMAIN fs.posts :
          /\ fs.posts[k].id = 2
          /\ ~fs.posts[k].liked_by_user
          /\ fs.posts[k].likes = 0
    /\ <<2, Viewer>> \notin likes
    /\ \E k \in DOMAIN fs.posts :
          fs.posts[k].id = 1 /\ fs.posts[k].likes = 1 /\ <<1, "u2">> \in likes

\* C20: when two handleLike calls on two different posts overlap, after both
\* have completed both posts have liked_by_user negated and likes moved by
\* one.  Stated at the completion of the later call: the entry of the post
\* the other call updated meanwhile is the negation of what the later call's
\* list held for it.  (No other update of the list during the later call.)
C20_OverlappingLikesBothApplied ==
    [][\A i \in DOMAIN hl :
         LET call == hl[i]
         IN  ( /\ call.pc = "settle"
               /\ ~call.threw
               /\ Len(hl') = Len(hl) - 1
               /\ call.other \notin {NoPost, Replaced, call.postId} )
             => \A k \in DOMAIN fs'.posts :
                  fs'.posts[k].id \in {call.postId, call.other}
                    => /\ fs'.posts[k].liked_by_user = ~call.posts[k].liked_by_user
                       /\ fs'.posts[k].likes
                            = IF call.posts[k].liked_by_user
                              THEN call.posts[k].likes - 1
                              ELSE call.posts[k].likes + 1
      ]_vars

\* ------------------------------------------------ claims: notification list
\* C15: for a notification of any of the five types, the item shows a text
\* that contains the actor's full_name, and pressing it closes the dropdown
\* and navigates: to the post of post_id for like and comment, to the
\* profile of follower_id for follow, and away from the current route for
\* the other types.
C15_EveryTypeHasContent ==
    [][\A k \in DOMAIN tl.notifications :
         ( /\ tl.showNotifications
           /\ tl' # tl
           /\ tl'.pressed = k
           /\ tl.notifications[k].type \in NotificationTypes )
         => /\ \E part \in DOMAIN tl'.text :
                  tl'.text[part] = tl.notifications[k].user.full_name
            /\ ~tl'.showNotifications
            /\ tl'.route # tl.route
            /\ tl.notifications[k].type \in {"like", "comment"}
                 => tl'.route = <<"/post/", tl.notifications[k].data.post_id>>
            /\ tl.notifications[k].type = "follow"
                 => tl'.route = <<"/", tl.notifications[k].data.follower_id>>
      ]_vars

\* ------------------------------------------------ claims: screens without a user
\* C16: a data screen whose mount finds no authenticated user redirects to
\* the auth route and starts none of its data fetches: the user profile
\* screen and the feed in checkUser, the own profile screen in the
\* fetchProfile its mount effect runs.
C16_NoUserRedirectsToAuth ==
    [][ /\ (authUser = NULL /\ fp.pc = "mount" /\ fp' # fp)
           => (up'.route = "auth" /\ fp'.pc = "off" /\ fup' = "off")
        /\ (authUser = NULL /\ fcu = "getUser" /\ fcu' # fcu)
           => (fs'.route = "/auth" /\ fps' = <<>>)
        /\ (authUser = NULL /\ ps.mounted /\ pfp.pc = "getUser" /\ pfp' # pfp)
           => ps'.route = "auth"
      ]_vars

\* ------------------------------------------------ claims: location permission
\* C17: an attachLocation whose permission request is refused changes
\* nothing but the permission status: location, content, selectedImage and
\* isCreating are as before and no call is started or ended; a
\* handleCreatePost that follows with a content that is not blank goes on to
\* the upload or the insert with the draft as it was, and its insert adds
\* the post with that content.
C17_DeniedLocationKeepsDraft ==
    [][ /\ (fs'.permission = "denied" /\ fs.permission # "denied")
           => /\ fs' = [fs EXCEPT !.permission = "denied"]
              /\ hcp' = hcp
              /\ posts' = posts
        /\ ( /\ fs.permission = "denied"
             /\ hcp.pc = "idle"
             /\ hcp' # hcp
             /\ Trim(fs.content) # <<>> )
           => /\ hcp'.pc \in {"upload", "insert"}
              /\ hcp'.content = fs.content
              /\ hcp'.location = fs.location
              /\ posts' = posts
        /\ ( /\ hcp.permission = "denied"
             /\ hcp.pc = "insert"
             /\ hcp'.pc = "resume"
             /\ hcp'.outcome = "ok" )
           => /\ Len(posts') = Len(posts) + 1
              /\ posts'[Len(posts')].content = hcp.content
              /\ Trim(hcp.content) # <<>> \/ hcp.selectedImage # NULL
      ]_vars

\* C17 witness: a post with a content that is not blank was inserted by a
\* handleCreatePost called after the permission was refused.
C17_Witness ==
    /\ hcp.pc = "resume"
    /\ hcp.outcome = "ok"
    /\ hcp.permission = "denied"
    /\ fs.permission = "denied"
    /\ Trim(hcp.content) # <<>>
    /\ posts # <<>>
    /\ posts[Len(posts)].content = hcp.content

\* ------------------------------------------------ claims: unread counter
\* C18: while TabLayout is mounted for the signed-in user, whenever no
\* fetchUnreadNotifications, fetchNotifications or markNotificationsAsRead
\* call is running and no realtime event is waiting to be delivered, the
\* unread counter equals the number of unread notification rows of the user.
C18_QuiescentCounterMatchesRows ==
    ( /\ tl.mounted
      /\ authUser = Viewer
      /\ fun = <<>>
      /\ fnl = <<>>
      /\ mrs = <<>>
      /\ events = 0 )
    => tl.unreadNotifications = UnreadCount(notifications, Viewer)

\* C19 as stated: while an update of markNotificationsAsRead is in flight
\* (sent, its continuation not yet run) the unread counter is already 0.
C19_CounterZeroWhileUpdateInFlight ==
    \A i \in DOMAIN mrs :
        (tl.mounted /\ mrs[i].pc \in {"update", "resume"})
        => tl.unreadNotifications = 0

\* C19 amended: markNotificationsAsRead leaves the unread counter alone
\* when the bell is pressed, when getUser returns and while the update
\* executes; the continuation that runs after the awaited update returned
\* sets it to 0, whether the update's result is data or an error; a call
\* that ends at getUser or whose update throws never changes it.
C19_CounterResetAfterUpdateReturns ==
    [][ /\ (mrs' # mrs /\ Len(mrs') >= Len(mrs))
           => tl'.unreadNotifications = tl.unreadNotifications
        /\ \A i \in DOMAIN mrs :
             (Len(mrs') < Len(mrs) /\ mrs' = RemoveAt(mrs, i) /\ tl.mounted)
             => IF mrs[i].pc = "resume" /\ mrs[i].outcome # "throw"
                THEN tl'.unreadNotifications = 0
                ELSE tl'.unreadNotifications = tl.unreadNotifications
      ]_vars

\* C19 witness: the update has flipped the user's rows on the server and its
\* continuation has not run: the counter still shows the old count.
C19_Witness ==
    /\ tl.mounted
    /\ tl.unreadNotifications > 0
    /\ UnreadCount(notifications, Viewer) = 0
    /\ \E i \in DOMAIN mrs : mrs[i].pc = "resume" /\ mrs[i].outcome = "ok"

\* ------------------------------------------------ claims: followers count
\* C21: on the user profile screen the followers_count of the stored
\* profile is never negative.
C21_FollowersCountNeverNegative ==
    (up.mounted /\ up.profile # NoProfile) => up.profile.followers_count >= 0

\* ------------------------------------------------ claims: root layout
\* C22: once the getSession result has been handled and every session-change
\* event has been delivered, the session state of RootLayout is the session
\* of the most recent session change on the backend.
C22_SessionIsLatestChange ==
    ( /\ root.getSession = "then"
      /\ root.events = <<>>
      /\ root.changes > 0 )
    => root.session = root.backend

\* C23: when the initial session lookup has ended, with a session, with no
\* session or with a failure, isLoading is false (and stays false: nothing
\* sets it again), so the loading indicator has been replaced.
C23_LoadingEndsWithLookup ==
    root.getSession \in {"then", "rejected"} => ~root.isLoading

\* ------------------------------------------------ claims: post with image
\* C24: a handleCreatePost call with a selected image starts with the
\* upload; it reaches the insert only with the object it has just stored,
\* and the row it inserts has that object as image_url; a failed upload
\* ends the call with no row inserted.
C24_InsertFollowsUpload ==
    [][ /\ (hcp.pc = "idle" /\ hcp'.pc # "idle" /\ fs.selectedImage # NULL)
           => (hcp'.pc = "upload" /\ posts' = posts)
        /\ (hcp.pc = "upload" /\ hcp'.pc = "insert")
           => /\ hcp'.imageUrl \notin storage
              /\ hcp'.imageUrl \in storage'
              /\ posts' = posts
        /\ (hcp.pc = "upload" /\ hcp' # hcp /\ hcp'.pc # "insert")
           => (hcp'.pc = "idle" /\ posts' = posts /\ storage' = storage)
        /\ (hcp.pc = "insert" /\ hcp.selectedImage # NULL)
           => hcp.imageUrl \in storage
        /\ (hcp.pc = "insert" /\ hcp.selectedImage # NULL /\ posts' # posts)
           => /\ Len(posts') = Len(posts) + 1
              /\ posts'[Len(posts')].image_url = hcp.imageUrl
      ]_vars

\* C24 witness: the row of a post with image is in the table and refers to
\* the stored object.
C24_Witness ==
    /\ hcp.pc = "resume"
    /\ hcp.outcome = "ok"
    /\ hcp.selectedImage # NULL
    /\ posts # <<>>
    /\ posts[Len(posts)].image_url \in storage

\* C25: when the insert of a post with an uploaded image fails, the call
\* ends without touching the storage: the object stays and no row of the
\* posts table refers to it.
C25_FailedInsertLeavesObject ==
    [][ ( /\ hcp.pc = "resume"
          /\ hcp.outcome # "ok"
          /\ hcp.imageUrl # NoObject
          /\ hcp' # hcp )
        => /\ hcp'.pc = "idle"
           /\ storage' = storage
           /\ hcp.imageUrl \in storage'
           /\ posts' = posts
           /\ \A k \in DOMAIN posts' : posts'[k].image_url # hcp.imageUrl
      ]_vars

\* C25 witness: the insert has failed after the upload stored the object.
C25_Witness ==
    /\ hcp.pc = "resume"
    /\ hcp.outcome # "ok"
    /\ hcp.imageUrl \in storage
    /\ \A k \in DOMAIN posts : posts[k].image_url # hcp.imageUrl

\* ------------------------------------------------ claims: realtime channels
\* C26: the teardown of TabLayout removes the notifications channel and the
\* messages channel, and once TabLayout is torn down no call of
\* fetchUnreadNotifications, fetchNotifications or fetchUnreadMessages is
\* started: the delivery of an insert event leaves the running calls as
\* they are.
C26_TeardownStopsHandlers ==
    [][ /\ (tl.mounted /\ ~tl'.mounted)
           => (~tl'.channel /\ ~tl'.messagesChannel)
        /\ ~tl.mounted
           => /\ ~tl'.channel /\ ~tl'.messagesChannel
              /\ Len(fun') <= Len(fun)
              /\ Len(fnl') <= Len(fnl)
              /\ Len(msg'.calls) <= Len(msg.calls)
        /\ (~tl.mounted /\ events' < events)
           => (fun' = fun /\ fnl' = fnl /\ msg'.calls = msg.calls)
        /\ (~tl.mounted /\ msg'.events < msg.events)
           => (fun' = fun /\ fnl' = fnl /\ msg'.calls = msg.calls)
      ]_vars

\* C26 witness: after the teardown an insert event of each table has arrived
\* and has been dropped.
C26_Witness ==
    /\ ~tl.mounted
    /\ tl.dropped = 2
    /\ events = 0
    /\ msg.events = 0

\* C27: while TabLayout is mounted with its channels, the delivery of an
\* insert event on notifications starts one fetchUnreadNotifications call and
\* one fetchNotifications call, and the delivery of an insert event on
\* messages starts one fetchUnreadMessages call.
C27_EventStartsFetches ==
    [][ /\ (tl.mounted /\ tl.channel /\ events' < events)
           => /\ Len(fun') = Len(fun) + 1
              /\ SubSeq(fun', 1, Len(fun)) = fun
              /\ fun'[Len(fun')].pc = "getUser"
              /\ Len(fnl') = Len(fnl) + 1
              /\ SubSeq(fnl', 1, Len(fnl)) = fnl
              /\ fnl'[Len(fnl')].pc = "getUser"
        /\ (tl.mounted /\ tl.messagesChannel /\ msg'.events < msg.events)
           => /\ Len(msg'.calls) = Len(msg.calls) + 1
              /\ SubSeq(msg'.calls, 1, Len(msg.calls)) = msg.calls
              /\ msg'.calls[Len(msg'.calls)].pc = "getUser"
      ]_vars

\* C27 witness: next to the calls of the mount, calls started by an event of
\* each table are running.
C27_Witness ==
    /\ tl.mounted
    /\ tl.dropped = 0
    /\ events = 0
    /\ msg.events = 0
    /\ Len(fun) + Len(fnl) = 3
    /\ \E i \in DOMAIN fnl : fnl[i].pc = "getUser"
    /\ Len(msg.calls) = 2

\* C29: a fetchUnreadNotifications or fetchUnreadMessages call whose count
\* query threw, or returned an error result with a null count, sets its
\* counter to 0; a call that returns because getUser yields no user leaves
\* its counter unchanged.
C29_FailedCountResetsCounter ==
    [][ /\ \A i \in DOMAIN fun :
             (tl.mounted /\ Len(fun') < Len(fun) /\ fun' = RemoveAt(fun, i))
             => /\ (fun[i].pc = "resume" /\ (fun[i].threw \/ fun[i].count = NoCount))
                   => tl'.unreadNotifications = 0
                /\ (fun[i].pc = "getUser" /\ tl'.noUser)
                   => tl'.unreadNotifications = tl.unreadNotifications
        /\ \A i \in DOMAIN msg.calls :
             ( /\ tl.mounted
               /\ Len(msg'.calls) < Len(msg.calls)
               /\ msg'.calls = RemoveAt(msg.calls, i) )
             => /\ ( /\ msg.calls[i].pc = "resume"
                     /\ (msg.calls[i].threw \/ msg.calls[i].count = NoCount) )
                   => tl'.unreadMessages = 0
                /\ (msg.calls[i].pc = "getUser" /\ tl'.noUser)
                   => tl'.unreadMessages = tl.unreadMessages
      ]_vars

\* C29 witness: the counters show unread rows, the session has ended and a
\* call has returned for want of a user, and a count query that failed is
\* about to reset the notifications counter.
C29_Witness ==
    /\ tl.mounted
    /\ authUser = NULL
    /\ tl.noUser
    /\ tl.unreadNotifications > 0
    /\ tl.unreadMessages > 0
    /\ \E i \in DOMAIN fun : fun[i].pc = "resume" /\ fun[i].count = NoCount

\* ------------------------------------------------ claims: failed fetches
\* C28: a fetchPosts call that ends after a failure (its select returned an
\* error result or threw, or getUser threw) leaves the posts list of the
\* feed as it was; a fetchNotifications call that ends after a failure
\* leaves the notifications list as it was; a fetchProfile call of the own
\* profile screen that ends in its catch block sets the error banner and
\* leaves the stored profile as it was.
C28_FailedFetchKeepsPriorState ==
    [][ /\ \A i \in DOMAIN fps :
             ( /\ Len(fps') < Len(fps)
               /\ fps' = RemoveAt(fps, i)
               /\ (fps[i].pc = "getUser" \/ fps[i].failed) )
             => fs'.posts = fs.posts
        /\ \A i \in DOMAIN fnl :
             ( /\ Len(fnl') < Len(fnl)
               /\ fnl' = RemoveAt(fnl, i)
               /\ (fnl[i].pc = "getUser" \/ (fnl[i].pc = "resume" /\ fnl[i].failed)) )
             => tl'.notifications = tl.notifications
        /\ (pfp.pc \notin {"done", "off"} /\ pfp'.pc = "done" /\ pfp'.failed)
           => /\ ps'.error = "Failed to load profile data"
              /\ ps'.profile = ps.profile
              /\ ps'.editedProfile = ps.editedProfile
      ]_vars

\* C28 witness: with posts and notifications on the screen, a fetchPosts
\* call and a fetchNotifications call have failed and are about to end, and
\* the own profile's fetchProfile has ended in its catch block.
C28_Witness ==
    /\ fs.posts # <<>>
    /\ \E i \in DOMAIN fps : fps[i].pc = "resume" /\ fps[i].failed
    /\ tl.notifications # <<>>
    /\ \E i \in DOMAIN fnl : fnl[i].pc = "resume" /\ fnl[i].failed
    /\ pfp.failed
    /\ ps.error = "Failed to load profile data"
    /\ ps.profile = NoProfile

\* ------------------------------------------------ claims: follow button
\* C30: followLoading is true exactly while a handleFollow call is between
\* its start and its end; every end of a call (after the local update, after
\* a thrown failure, for want of a user) resets it; and as the button is
\* disabled while followLoading is true, a call starts only when no call is
\* running, so at most one follow delete or insert is in flight.
C30_FollowLoadingGuardsCall ==
    [][ /\ up.followLoading <=> hf.pc # "idle"
        /\ (hf.pc # "idle" /\ hf'.pc = "idle") => ~up'.followLoading
        /\ (hf'.pc = "getUser" /\ hf.pc # "getUser")
           => (hf.pc = "idle" /\ ~up.followLoading /\ up'.followLoading)
        /\ (hf'.pc = "backend" /\ hf.pc # "backend") => hf.pc = "getUser"
      ]_vars

\* C30 witness: the delete or insert of a handleFollow call is in flight and
\* the button is disabled.
C30_Witness ==
    /\ up.mounted
    /\ hf.pc = "backend"
    /\ up.followLoading
    /\ Render(up) = "profile"

====
